---- MODULE Spec2Model ----
(***************************************************************************)
(* fableford-health-go: the default reporting backend (BaseServer), the    *)
(* HTTP handler over any Server implementation behind its router, and the  *)
(* HTTP client with its constructor.                                       *)
(*                                                                         *)
(* A caller makes one call at a time: an assignment to a field of the      *)
(* BaseServer, an operation of the BaseServer, a request through the       *)
(* router to HTTPHandler (the Server behind it returning any (result,      *)
(* error) pair), NewClient with any options, or a call of the client (the  *)
(* peer sending any response and the context ending at any point).  Every  *)
(* operation is one action; its outcome is held in bout, hout, cout or     *)
(* nout until the caller has taken it, so that properties of the outcome   *)
(* are state predicates.                                                   *)
(***************************************************************************)
EXTENDS Integers, Sequences, FiniteSets, TLC

VARIABLES
    now,    \* the wall clock read by time.Now()
    srv,    \* the BaseServer value (its exported fields)
    bout,   \* outcome of the last BaseServer operation
    hout,   \* outcome of the last HTTPHandler request
    cout,   \* outcome of the last client call
    nout,   \* outcome of the last NewClient call
    inflight \* the locals of each goroutine of the concurrent requests and calls

vars == <<now, srv, bout, hout, cout, nout, inflight>>

\* No call is outstanding: a result does not outlive the call that asked
\* for it, and the caller makes its next call after taking the last result.
Quiet ==
    /\ bout.op = "none"
    /\ hout.route = "none"
    /\ cout.op = "none"
    /\ nout.op = "none"

(***************************************************************************)
(* Bounds of the model.                                                    *)
(***************************************************************************)
MaxTime == 2
MaxChecks == 2
MaxOpts == 2
TicksPerSecond == 2

(***************************************************************************)
(* net/http status codes the code names.                                   *)
(***************************************************************************)
StatusOK == 200
StatusServiceUnavailable == 503
StatusInternalServerError == 500

(***************************************************************************)
(* time.Time.  The instant is wall clock ticks since the program started   *)
(* (TicksPerSecond ticks to the second) and nsec nanoseconds more, nsec    *)
(* being a few nanoseconds, far less than a tick; mono tells whether the   *)
(* value carries a monotonic clock reading, as every time.Now() does and   *)
(* no decoded value does.  ZeroWall stands for the zero time.Time (year 1) *)
(* and BadWall for an instant after year 9999.                             *)
(***************************************************************************)
ZeroWall == 0 - 1
BadWall == 0 - 2
Time(wall, nsec, mono) == [wall |-> wall, nsec |-> nsec, mono |-> mono]
ZeroTime == Time(ZeroWall, 0, FALSE)
BadTime == Time(BadWall, 0, FALSE)
TimeNow(clock) == Time(clock, 0, TRUE)

(***************************************************************************)
(* Texts: what a body or a metrics string holds.  A text is opaque bytes   *)
(* (kind "text", raw the bytes), a complete JSON document (kind "json":    *)
(* root says whether it is an object, null, or another JSON value, fields  *)
(* maps the object's keys to their values), or the prefix of a JSON        *)
(* document cut before its end (kind "partial").                            *)
(***************************************************************************)
\* A JSON value inside a document: t its type, s its text (a string's
\* characters, a number's literal as the JSON grammar writes it, true/false),
\* m the members of an object of strings, a the elements of an array of
\* objects, each a function from its keys to their values.
JLeaf(t, s, m, a) == [t |-> t, s |-> s, m |-> m, a |-> a]
NoMap == [k \in {} |-> ""]
JStr(s) == JLeaf("string", s, NoMap, <<>>)
JBool(b) == JLeaf("bool", IF b THEN "true" ELSE "false", NoMap, <<>>)
JNumText(literal) == JLeaf("number", literal, NoMap, <<>>)
JNum(n) == JNumText(ToString(n))
JNull == JLeaf("null", "", NoMap, <<>>)
JMap(m) == JLeaf("object", "", m, <<>>)
JArr(a) == JLeaf("array", "", NoMap, a)

NoFields == [k \in {} |-> JNull]
Txt(raw) == [kind |-> "text", raw |-> raw, root |-> "none", fields |-> NoFields]
JObj(fields) == [kind |-> "json", raw |-> "", root |-> "object", fields |-> fields]
JDocNull == [kind |-> "json", raw |-> "", root |-> "null", fields |-> NoFields]
JDocOther == [kind |-> "json", raw |-> "", root |-> "other", fields |-> NoFields]
JPartial == [kind |-> "partial", raw |-> "", root |-> "none", fields |-> NoFields]
\* A document that is one literal with no byte after it: null, or a number,
\* string or boolean.  JDocNull and JDocOther are followed by a newline, as
\* json.Encoder writes them, or are an array.
JBareNull == [kind |-> "bare", raw |-> "", root |-> "null", fields |-> NoFields]
JBareOther == [kind |-> "bare", raw |-> "", root |-> "other", fields |-> NoFields]
EmptyText == Txt("")

\* The object with the given <<key, value>> pairs.
Fields(pairs) ==
    [k \in {p[1] : p \in pairs} |-> (CHOOSE p \in pairs : p[1] = k)[2]]

(***************************************************************************)
(* Go error values.  kind "nil" is the nil error; "opaque" an error built  *)
(* by a caller-supplied function, of which only Error() is known.  The     *)
(* client's errors are built by fmt.Errorf: kind names the format, code    *)
(* and body are its %d and %s arguments, cause the error wrapped by %w.    *)
(***************************************************************************)
Err(kind, msg, code, body, cause) ==
    [kind |-> kind, msg |-> msg, code |-> code, body |-> body, cause |-> cause]
NilErr == Err("nil", "", 0, EmptyText, "none")
OpaqueErr(msg) == Err("opaque", msg, 0, EmptyText, "none")
IsNilErr(e) == e.kind = "nil"

(***************************************************************************)
(* The response types.  A nil map and an empty map are different values    *)
(* of Checks, a nil slice and an empty one different values of             *)
(* Dependencies; a nil *time.Time and a set one are different BuildTimes.  *)
(***************************************************************************)
HealthStatusHealthy == "healthy"
HealthStatusUnhealthy == "unhealthy"

HealthResponse(status, ts) == [Status |-> status, Timestamp |-> ts]
LivenessResponse(alive, ts) == [Alive |-> alive, Timestamp |-> ts]
ChecksMap(isNil, m) == [isNil |-> isNil, m |-> m]
ReadinessResponse(ready, ts, checks) ==
    [Ready |-> ready, Timestamp |-> ts, Checks |-> checks]
Dependency(name, status, version) ==
    [Name |-> name, Status |-> status, Version |-> version]
Deps(isNil, list) == [isNil |-> isNil, list |-> list]
NilDeps == Deps(TRUE, <<>>)
TimePtr(isNil, t) == [isNil |-> isNil, t |-> t]
NilTimePtr == TimePtr(TRUE, ZeroTime)
StatusResponse(name, version, commit, build, start, uptime, env, host, deps) ==
    [ServiceName |-> name, Version |-> version, GitCommit |-> commit,
     BuildTime |-> build, StartTime |-> start, UptimeSeconds |-> uptime,
     Environment |-> env, Hostname |-> host, Dependencies |-> deps]

(***************************************************************************)
(* BaseServer.  CheckFunc and MetricsFunc are caller-supplied functions:   *)
(* the fields record only whether one is set ("nil" or "set"); what a set  *)
(* function returns is chosen at each call among the values such a         *)
(* function can return.                                                    *)
(***************************************************************************)
BaseServer(name, version, commit, build, start, env, host, checkFn, metricsFn, deps) ==
    [ServiceName |-> name, Version |-> version, GitCommit |-> commit,
     BuildTime |-> build, StartTime |-> start, Environment |-> env,
     Hostname |-> host, CheckFunc |-> checkFn, MetricsFunc |-> metricsFn,
     Dependencies |-> deps]

NewBaseServer(serviceName, version, environment, clock) ==
    BaseServer(serviceName, version, "", NilTimePtr, TimeNow(clock), environment,
               "", "nil", "nil", NilDeps)

\* The names and outcome strings a check-provider reports.
CheckNames == {"check" \o ToString(i) : i \in 1 .. MaxChecks}
CheckValues ==
    {"connected", "available", "reachable", "healthy", "", "Connected", "unavailable"}
CheckMaps == UNION {[S -> CheckValues] : S \in SUBSET CheckNames}
\* What a check-provider can return: a nil map, or a map.
CheckReturns == {ChecksMap(TRUE, NoMap)} \cup {ChecksMap(FALSE, m) : m \in CheckMaps}

\* The texts and errors a metrics-provider can return.
MetricsTexts == {EmptyText, Txt("# metrics"), Txt("partial")}
ProviderErrs == {NilErr, OpaqueErr("metrics collection failed"), OpaqueErr("")}

\* The orders in which a range statement can visit the keys of a map.
Orders(m) ==
    {o \in [1 .. Cardinality(DOMAIN m) -> DOMAIN m] :
        \A i, j \in 1 .. Cardinality(DOMAIN m) : o[i] = o[j] => i = j}

\* IsReadyStatus with "reachable" left out of the test.
IsReadyStatusWithoutReachable(status) ==
    ~(status # "connected" /\ status # "available" /\ status # "healthy")

\* server.go:164, the negation of the loop's test.
IsReadyStatus(status) ==
    ~(status # "connected" /\ status # "available"
      /\ status # "reachable" /\ status # "healthy")

\* server.go:163-168: the range over checks from position i of the visiting
\* order, ready being true on entry.
RECURSIVE ReadyLoop(_, _, _)
ReadyLoop(m, order, i) ==
    IF i > Len(order) THEN TRUE
    ELSE IF ~IsReadyStatus(m[order[i]]) THEN FALSE
    ELSE ReadyLoop(m, order, i + 1)

\* The built-in placeholder metrics text (server.go:199-209).
defaultMetrics == Txt("# HELP http_requests_total ... http_request_duration_seconds_count 0")

(***************************************************************************)
(* The outcome of a BaseServer operation: the pointer result (hasRes tells *)
(* whether it is non-nil), the text result of GetMetrics, the error, and   *)
(* what the provider function returned when one was called (fnCalls times).*)
(* ctx is the context the operation was called with: nil, live, or ended   *)
(* by cancellation or by its deadline before the call.                     *)
(***************************************************************************)
Contexts == {"nil", "live", "canceled", "deadline"}
BackendOut(op, ctx, hasRes, res, text, err, fnCalls, fnChecks, fnText, fnErr) ==
    [op |-> op, ctx |-> ctx, hasRes |-> hasRes, res |-> res, text |-> text, err |-> err,
     fnCalls |-> fnCalls, fnChecks |-> fnChecks, fnText |-> fnText, fnErr |-> fnErr]
NoChecks == ChecksMap(TRUE, NoMap)
NoRes == HealthResponse("", ZeroTime)
NoBackendOut ==
    BackendOut("none", "live", FALSE, NoRes, EmptyText, NilErr, 0, NoChecks, EmptyText, NilErr)

\* server.go:143-148, returning ctx.Err() when the context has ended.
BaseGetHealthHonouringContext ==
    /\ Quiet
    /\ \E ctx \in Contexts :
         bout' = IF ctx \in {"canceled", "deadline"}
                 THEN BackendOut("GetHealth", ctx, FALSE, NoRes, EmptyText,
                                 OpaqueErr(ctx), 0, NoChecks, EmptyText, NilErr)
                 ELSE BackendOut("GetHealth", ctx, TRUE,
                                 HealthResponse(HealthStatusHealthy, TimeNow(now)),
                                 EmptyText, NilErr, 0, NoChecks, EmptyText, NilErr)
    /\ UNCHANGED <<now, srv, hout, cout, nout, inflight>>

\* server.go:143-148
BaseGetHealth ==
    /\ Quiet
    /\ \E ctx \in Contexts :
         bout' = BackendOut("GetHealth", ctx, TRUE,
                            HealthResponse(HealthStatusHealthy, TimeNow(now)),
                            EmptyText, NilErr, 0, NoChecks, EmptyText, NilErr)
    /\ UNCHANGED <<now, srv, hout, cout, nout, inflight>>

\* server.go:150-155
BaseGetLiveness ==
    /\ Quiet
    /\ \E ctx \in Contexts :
         bout' = BackendOut("GetLiveness", ctx, TRUE,
                            LivenessResponse(TRUE, TimeNow(now)),
                            EmptyText, NilErr, 0, NoChecks, EmptyText, NilErr)
    /\ UNCHANGED <<now, srv, hout, cout, nout, inflight>>

\* The calls of GetReadiness made on a server with a check-provider: with a
\* live context for whatever the provider returns, and with a nil or ended
\* context for its returns of at most one check.
ReadinessCalls ==
    {call \in Contexts \X CheckReturns :
        call[1] = "live" \/ Cardinality(DOMAIN call[2].m) <= 1}

\* server.go:157-176
BaseGetReadiness ==
    /\ Quiet
    /\ \/ /\ srv.CheckFunc = "nil"
          /\ \E ctx \in Contexts :
               bout' = BackendOut("GetReadiness", ctx, TRUE,
                          ReadinessResponse(TRUE, TimeNow(now), ChecksMap(FALSE, NoMap)),
                          EmptyText, NilErr, 0, NoChecks, EmptyText, NilErr)
       \/ /\ srv.CheckFunc # "nil"
          /\ \E call \in ReadinessCalls :
               \E order \in Orders(call[2].m) :
                  bout' = BackendOut("GetReadiness", call[1], TRUE,
                             ReadinessResponse(ReadyLoop(call[2].m, order, 1),
                                               TimeNow(now), call[2]),
                             EmptyText, NilErr, 1, call[2], EmptyText, NilErr)
    /\ UNCHANGED <<now, srv, hout, cout, nout, inflight>>

\* time.Since(t), server.go:179, at clock reading clock.  A Duration holds
\* at most about 292 years: the difference saturates beyond that, as it
\* does for the zero time.Time (year 1) and for a time after year 9999.
\* sat tells whether it did ("max", "min") or not ("no"); when it did not,
\* the duration is ticks clock ticks less nanos nanoseconds, the instant t
\* lying nanos nanoseconds after a tick of the clock.
Duration(sat, ticks, nanos) == [sat |-> sat, ticks |-> ticks, nanos |-> nanos]
Since(t, clock) ==
    CASE t.wall = ZeroWall -> Duration("max", 0, 0)
      [] t.wall = BadWall  -> Duration("min", 0, 0)
      [] OTHER             -> Duration("no", clock - t.wall, t.nsec)

\* d / Second in Duration.Seconds: Go's integer division truncates toward
\* zero.  A duration of ticks ticks less a few nanoseconds lies between
\* ticks - 1 and ticks ticks.
DurationSec(d) ==
    IF d.ticks > 0
    THEN (IF d.nanos = 0 THEN d.ticks ELSE d.ticks - 1) \div TicksPerSecond
    ELSE 0 - ((0 - d.ticks) \div TicksPerSecond)

\* Duration.Seconds returns float64(d / Second) + float64(d % Second) / 1e9,
\* the sum rounded to the nearest float64.  From 2^k seconds to 2^(k+1) the
\* float64s lie 2^(k-52) seconds apart, so a sum within half of that of the
\* next whole second, 10^9 / 2^(53-k) nanoseconds, is rounded to it; below
\* 2^24 seconds half the distance is less than a nanosecond.
RECURSIVE Log2(_)
Log2(n) == IF n < 2 THEN 0 ELSE 1 + Log2(n \div 2)
RoundingNanos(sec) ==
    IF sec < 2 ^ 24 THEN 0 ELSE (10 ^ 9) \div (2 ^ (53 - Log2(sec)))
\* d % Second is all but d.nanos nanoseconds of a second: d ends d.nanos
\* nanoseconds before a tick that is a whole second.
RoundsToNextSecond(d) ==
    /\ d.ticks > 0
    /\ d.nanos > 0
    /\ d.ticks % TicksPerSecond = 0
    /\ d.nanos <= RoundingNanos(DurationSec(d))

\* int64(d.Seconds()), server.go:179 and 187: the conversion of the float64
\* truncates toward zero.  MaxDurationSeconds stands for 9223372036, the
\* whole seconds in the largest Duration, which is beyond the integers of
\* the model.
MaxDurationSeconds == 2147483647
WholeSeconds(d) ==
    CASE d.sat = "max"         -> MaxDurationSeconds
      [] d.sat = "min"         -> 0 - MaxDurationSeconds
      [] RoundsToNextSecond(d) -> DurationSec(d) + 1
      [] OTHER                 -> DurationSec(d)

\* server.go:178-192
BaseServerGetStatus(s, clock) ==
    StatusResponse(s.ServiceName, s.Version, s.GitCommit, s.BuildTime,
                   s.StartTime, WholeSeconds(Since(s.StartTime, clock)),
                   s.Environment, s.Hostname, s.Dependencies)

\* GetStatus on a backend that starts counting anew at every call.
BaseGetStatusRestarting ==
    /\ Quiet
    /\ \E ctx \in Contexts :
         bout' = BackendOut("GetStatus", ctx, TRUE, BaseServerGetStatus(srv, now),
                            EmptyText, NilErr, 0, NoChecks, EmptyText, NilErr)
    /\ srv' = [srv EXCEPT !.StartTime = TimeNow(now)]
    /\ UNCHANGED <<now, hout, cout, nout, inflight>>

BaseGetStatus ==
    /\ Quiet
    /\ \E ctx \in Contexts :
         bout' = BackendOut("GetStatus", ctx, TRUE, BaseServerGetStatus(srv, now),
                            EmptyText, NilErr, 0, NoChecks, EmptyText, NilErr)
    /\ UNCHANGED <<now, srv, hout, cout, nout, inflight>>

\* server.go:194-211, returning no text when the metrics function fails.
BaseGetMetricsDroppingTextOnError ==
    /\ Quiet
    /\ \E ctx \in Contexts :
         \/ /\ srv.MetricsFunc # "nil"
            /\ \E text \in MetricsTexts, err \in ProviderErrs :
                 bout' = BackendOut("GetMetrics", ctx, FALSE, NoRes,
                                    IF IsNilErr(err) THEN text ELSE EmptyText, err,
                                    1, NoChecks, text, err)
         \/ /\ srv.MetricsFunc = "nil"
            /\ bout' = BackendOut("GetMetrics", ctx, FALSE, NoRes, defaultMetrics,
                                  NilErr, 0, NoChecks, EmptyText, NilErr)
    /\ UNCHANGED <<now, srv, hout, cout, nout, inflight>>

\* server.go:194-211
BaseGetMetrics ==
    /\ Quiet
    /\ \E ctx \in Contexts :
         \/ /\ srv.MetricsFunc # "nil"
            /\ \E text \in MetricsTexts, err \in ProviderErrs :
                 bout' = BackendOut("GetMetrics", ctx, FALSE, NoRes, text, err,
                                    1, NoChecks, text, err)
         \/ /\ srv.MetricsFunc = "nil"
            /\ bout' = BackendOut("GetMetrics", ctx, FALSE, NoRes, defaultMetrics,
                                  NilErr, 0, NoChecks, EmptyText, NilErr)
    /\ UNCHANGED <<now, srv, hout, cout, nout, inflight>>

\* The caller assigns the exported field CheckFunc (server.go:129).
SetCheckFunc ==
    /\ Quiet
    /\ \E f \in {"nil", "set"} : srv' = [srv EXCEPT !.CheckFunc = f]
    /\ UNCHANGED <<now, bout, hout, cout, nout, inflight>>

\* The caller assigns the exported field MetricsFunc (server.go:130).
SetMetricsFunc ==
    /\ Quiet
    /\ \E f \in {"nil", "set"} : srv' = [srv EXCEPT !.MetricsFunc = f]
    /\ UNCHANGED <<now, bout, hout, cout, nout, inflight>>

\* The static fields a caller assigns (server.go:122-131).
StaticFields(commit, build, host, deps) ==
    [GitCommit |-> commit, BuildTime |-> build, Hostname |-> host,
     Dependencies |-> deps]
ConfiguredDeps ==
    Deps(FALSE, <<Dependency("postgres", "healthy", "14.5"),
                  Dependency("redis", "healthy", "7.0")>>)
\* The build time of the configured server: time.Now().Add(-24 * time.Hour).
BuildAge == 86400
\* The configurations a caller assigns at clock reading clock: none of the
\* fields, the hostname alone, or all four.
StaticConfigs(clock) ==
    {StaticFields("", NilTimePtr, "", NilDeps),
     StaticFields("", NilTimePtr, "test-host-123", NilDeps),
     StaticFields("abc123def456",
                  TimePtr(FALSE, Time(clock - BuildAge * TicksPerSecond, 0, TRUE)),
                  "test-host-123", ConfiguredDeps)}

SetStaticFields ==
    /\ Quiet
    /\ \E f \in StaticConfigs(now) :
         srv' = [srv EXCEPT !.GitCommit = f.GitCommit, !.BuildTime = f.BuildTime,
                            !.Hostname = f.Hostname,
                            !.Dependencies = f.Dependencies]
    /\ UNCHANGED <<now, bout, hout, cout, nout, inflight>>

\* The caller assigns StartTime (server.go:126): the zero time.Time of a
\* struct literal that leaves the field out, an instant UptimeStart
\* seconds before the clock reading (time.Now().Add(-time.Hour)), one as
\* long after it (time.Now().Add(time.Hour)), or the start of a server
\* that has been up for 194 days: the instant one or two nanoseconds less
\* than 2^24 + 1 seconds before the program started.
UptimeStart == 3600
LongUptimeNanos == {1, 2}
LongUptimeStart(nsec) == Time(0 - (2 ^ 24 + 1) * TicksPerSecond, nsec, TRUE)
StartTimes(clock) ==
    {ZeroTime,
     Time(clock - UptimeStart * TicksPerSecond, 0, TRUE),
     Time(clock + UptimeStart * TicksPerSecond, 0, TRUE)}
    \cup {LongUptimeStart(nsec) : nsec \in LongUptimeNanos}
SetStartTime ==
    /\ Quiet
    /\ \E t \in StartTimes(now) : srv' = [srv EXCEPT !.StartTime = t]
    /\ UNCHANGED <<now, bout, hout, cout, nout, inflight>>

\* Time passes: the clock advances by one tick, TicksPerSecond ticks to
\* the second.
Tick ==
    /\ Quiet
    /\ now < MaxTime
    /\ now' = now + 1
    /\ UNCHANGED <<srv, bout, hout, cout, nout, inflight>>


(***************************************************************************)
(* encoding/json, as json.NewEncoder(w).Encode uses it on the response     *)
(* types.  A Go string that is not valid UTF-8 is written with U+FFFD in   *)
(* place of the bad bytes; a time.Time is written as an RFC 3339 string    *)
(* and cannot be written when its year is outside 0..9999; a field tagged  *)
(* omitempty is left out when it is empty; a nil pointer and a nil map are *)
(* written as null.                                                        *)
(***************************************************************************)
BadUTF8 == "\\xff"
ReplacementChar == "\\ufffd"

JSONString(s) == JStr(IF s = BadUTF8 THEN ReplacementChar ELSE s)
RFC3339(t) ==
    IF t.nsec = 0 THEN "t" \o ToString(t.wall)
    ELSE "t" \o ToString(t.wall) \o "." \o ToString(t.nsec)
TimeEncodes(t) == t.wall # BadWall
JSONTime(t) == JStr(RFC3339(t))
\* An encoding: ok tells whether Encode returned no error, doc is the document.
Encoded(ok, doc) == [ok |-> ok, doc |-> doc]

EncodeHealth(hasRes, res) ==
    IF ~hasRes THEN Encoded(TRUE, JDocNull)
    ELSE Encoded(TimeEncodes(res.Timestamp),
                 JObj(Fields({<<"status", JSONString(res.Status)>>,
                              <<"timestamp", JSONTime(res.Timestamp)>>})))

EncodeLiveness(hasRes, res) ==
    IF ~hasRes THEN Encoded(TRUE, JDocNull)
    ELSE Encoded(TimeEncodes(res.Timestamp),
                 JObj(Fields({<<"alive", JBool(res.Alive)>>,
                              <<"timestamp", JSONTime(res.Timestamp)>>})))

JSONChecks(checks) ==
    IF checks.isNil THEN JNull
    ELSE JMap([k \in DOMAIN checks.m |-> JSONString(checks.m[k]).s])

EncodeReadiness(hasRes, res) ==
    IF ~hasRes THEN Encoded(TRUE, JDocNull)
    ELSE Encoded(TimeEncodes(res.Timestamp),
                 JObj(Fields({<<"ready", JBool(res.Ready)>>,
                              <<"timestamp", JSONTime(res.Timestamp)>>,
                              <<"checks", JSONChecks(res.Checks)>>})))

\* A dependency written with its version as null when it has none.
JSONDependencyWithNullVersion(d) ==
    Fields({<<"name", JSONString(d.Name)>>, <<"status", JSONString(d.Status)>>,
            <<"version", IF d.Version = "" THEN JNull ELSE JSONString(d.Version)>>})
JSONDependency(d) ==
    Fields({<<"name", JSONString(d.Name)>>, <<"status", JSONString(d.Status)>>}
           \cup (IF d.Version = "" THEN {}
                 ELSE {<<"version", JSONString(d.Version)>>}))

EncodeStatus(hasRes, res) ==
    IF ~hasRes THEN Encoded(TRUE, JDocNull)
    ELSE Encoded(
           TimeEncodes(res.StartTime)
             /\ (res.BuildTime.isNil \/ TimeEncodes(res.BuildTime.t)),
           JObj(Fields(
             {<<"service_name", JSONString(res.ServiceName)>>,
              <<"version", JSONString(res.Version)>>,
              <<"start_time", JSONTime(res.StartTime)>>,
              <<"uptime_seconds", JNum(res.UptimeSeconds)>>,
              <<"environment", JSONString(res.Environment)>>}
             \cup (IF res.GitCommit = "" THEN {}
                   ELSE {<<"git_commit", JSONString(res.GitCommit)>>})
             \cup (IF res.BuildTime.isNil THEN {}
                   ELSE {<<"build_time", JSONTime(res.BuildTime.t)>>})
             \cup (IF res.Hostname = "" THEN {}
                   ELSE {<<"hostname", JSONString(res.Hostname)>>})
             \cup (IF Len(res.Dependencies.list) = 0 THEN {}
                   ELSE {<<"dependencies",
                           JArr([i \in 1 .. Len(res.Dependencies.list) |->
                                   JSONDependency(res.Dependencies.list[i])])>>}))))

\* server.go:116-118: the map {"error": err.Error()}.
EncodeError(err) == JObj(Fields({<<"error", JSONString(err.msg)>>}))

(***************************************************************************)
(* http.ResponseWriter, as seen on the wire: the status and the headers    *)
(* are fixed by the first WriteHeader (or the first Write); body is the    *)
(* sequence of texts written.  headerCalls counts the WriteHeader calls.   *)
(***************************************************************************)
NewWriter ==
    [status |-> 0, ctype |-> "", sentCtype |-> "", body |-> <<>>,
     wroteHeader |-> FALSE, headerCalls |-> 0]
SetContentType(w, ctype) == [w EXCEPT !.ctype = ctype]
WriteHeader(w, code) ==
    IF w.wroteHeader THEN [w EXCEPT !.headerCalls = @ + 1]
    ELSE [w EXCEPT !.status = code, !.sentCtype = w.ctype,
                   !.wroteHeader = TRUE, !.headerCalls = @ + 1]
Write(w, text) ==
    LET h == IF w.wroteHeader THEN w
             ELSE [w EXCEPT !.status = StatusOK, !.sentCtype = w.ctype,
                            !.wroteHeader = TRUE]
    IN  [h EXCEPT !.body = Append(@, text)]
\* net/http.Error: a text/plain header, WriteHeader(code), the message.
HTTPError(w, code) ==
    Write(WriteHeader(SetContentType(w, "text/plain; charset=utf-8"), code),
          Txt("json: error calling MarshalJSON"))

\* writeJSON without its Content-Type line: net/http then sniffs the type
\* of the first bytes written, plain text for a JSON document.
writeJSONSniffed(w, status, enc) ==
    LET w1 == WriteHeader(SetContentType(w, "text/plain; charset=utf-8"), status)
    IN  IF enc.ok THEN Write(w1, enc.doc)
        ELSE HTTPError(w1, StatusInternalServerError)

\* server.go:105-111
writeJSON(w, status, enc) ==
    LET w1 == WriteHeader(SetContentType(w, "application/json"), status)
    IN  IF enc.ok THEN Write(w1, enc.doc)
        ELSE HTTPError(w1, StatusInternalServerError)

\* writeError answering as net/http.Error does: the message as plain text.
writeErrorPlainText(w, status, err) ==
    Write(WriteHeader(SetContentType(w, "text/plain; charset=utf-8"), status),
          Txt(err.msg))

\* server.go:113-119
writeError(w, status, err) ==
    Write(WriteHeader(SetContentType(w, "application/json"), status),
          EncodeError(err))


(***************************************************************************)
(* HTTPHandler.  The Server behind it is any implementation of the         *)
(* interface (server.go:12-18): a call returns a pointer result that may   *)
(* be nil, or a text for GetMetrics, together with an error that may be    *)
(* nil.  A handler is a function of that return value; its outcome holds   *)
(* log, the calls it made in order, the response as written, and whether   *)
(* it panicked on a nil pointer.                                           *)
(***************************************************************************)
ServerRet(hasRes, res, text, err) ==
    [hasRes |-> hasRes, res |-> res, text |-> text, err |-> err]

ServerErrs == {NilErr, OpaqueErr("backend failed"), OpaqueErr(""), OpaqueErr(BadUTF8)}
ServerTimes ==
    {TimeNow(0), ZeroTime, BadTime, Time(0 - UptimeStart * TicksPerSecond, 0, TRUE)}
HealthStatuses == {HealthStatusHealthy, HealthStatusUnhealthy, "degraded", "", BadUTF8}

SampleChecks ==
    {ChecksMap(TRUE, NoMap), ChecksMap(FALSE, NoMap)}
    \cup {ChecksMap(FALSE, [k \in {"check1"} |-> v]) : v \in {"connected", "unavailable"}}

SampleDeps ==
    {NilDeps, Deps(FALSE, <<>>),
     Deps(FALSE, <<Dependency("postgres", "healthy", "14.5"),
                   Dependency("redis", "down", "")>>)}
\* server_test.go:351-365, part_001:429-445: the full status of the tests,
\* built a day before the clock reading and up for an hour.
FullStatus ==
    StatusResponse("test-service", "1.2.3", "abc123",
                   TimePtr(FALSE, Time(0 - BuildAge * TicksPerSecond, 0, TRUE)),
                   TimeNow(0), UptimeStart, "production", "test-host", ConfiguredDeps)
SampleStatuses ==
    {FullStatus,
     [FullStatus EXCEPT !.StartTime = Time(0 - UptimeStart * TicksPerSecond, 0, TRUE),
                        !.UptimeSeconds = 0 - UptimeStart],
     [FullStatus EXCEPT !.StartTime = LongUptimeStart(1),
                        !.UptimeSeconds = 2 ^ 24 + 1]}
    \cup
    {StatusResponse("svc", "1.0.0", commit, build, start, uptime, "prod", host, deps) :
        commit \in {"", "abc123"},
        build \in {NilTimePtr, TimePtr(FALSE, Time(0, 0, FALSE))},
        start \in {TimeNow(0), BadTime},
        uptime \in {0, MaxTime},
        host \in {""},
        deps \in SampleDeps}
    \cup {StatusResponse("", "", "", NilTimePtr, ZeroTime, 0, "", "host-1",
                         Deps(FALSE, <<Dependency("", "", "")>>))}

NilRet(err) == ServerRet(FALSE, NoRes, EmptyText, err)
HealthReturns ==
    {NilRet(e) : e \in ServerErrs}
    \cup {ServerRet(TRUE, HealthResponse(st, t), EmptyText, e) :
            st \in HealthStatuses, t \in ServerTimes, e \in ServerErrs}
LivenessReturns ==
    {NilRet(e) : e \in ServerErrs}
    \cup {ServerRet(TRUE, LivenessResponse(a, t), EmptyText, e) :
            a \in BOOLEAN, t \in ServerTimes, e \in ServerErrs}
ReadinessReturns ==
    {NilRet(e) : e \in ServerErrs}
    \cup {ServerRet(TRUE, ReadinessResponse(r, t, c), EmptyText, e) :
            r \in BOOLEAN, t \in ServerTimes, c \in SampleChecks, e \in ServerErrs}
StatusReturns ==
    {NilRet(e) : e \in ServerErrs}
    \cup {ServerRet(TRUE, r, EmptyText, e) : r \in SampleStatuses, e \in ServerErrs}
MetricsReturns ==
    {ServerRet(FALSE, NoRes, t, e) :
        t \in MetricsTexts \cup {defaultMetrics, Txt(BadUTF8)}, e \in ServerErrs}

HandlerOut(route, ret, log, panicked, w) ==
    [route |-> route, ret |-> ret, log |-> log, panicked |-> panicked, w |-> w]

\* server.go:45-48
HealthStatusCode(res) ==
    IF res.Status = HealthStatusUnhealthy THEN StatusServiceUnavailable ELSE StatusOK

\* server.go:60-63
LivenessStatusCode(res) ==
    IF ~res.Alive THEN StatusServiceUnavailable ELSE StatusOK

\* ReadinessStatusCode deciding on the checks mapping instead of Ready.
ReadinessStatusCodeFromChecks(res) ==
    IF \E k \in DOMAIN res.Checks.m : res.Checks.m[k] # "connected"
    THEN StatusServiceUnavailable ELSE StatusOK

\* server.go:75-78
ReadinessStatusCode(res) ==
    IF ~res.Ready THEN StatusServiceUnavailable ELSE StatusOK

\* server.go:38-51
handleGetHealth(ret) ==
    IF ~IsNilErr(ret.err)
    THEN HandlerOut("/health", ret, <<"server.GetHealth", "writeError">>, FALSE,
                    writeError(NewWriter, StatusInternalServerError, ret.err))
    ELSE IF ~ret.hasRes
    THEN HandlerOut("/health", ret, <<"server.GetHealth">>, TRUE, NewWriter)
    ELSE HandlerOut("/health", ret, <<"server.GetHealth", "writeJSON">>, FALSE,
                    writeJSON(NewWriter, HealthStatusCode(ret.res),
                              EncodeHealth(TRUE, ret.res)))

\* server.go:53-66
handleGetLiveness(ret) ==
    IF ~IsNilErr(ret.err)
    THEN HandlerOut("/health/live", ret, <<"server.GetLiveness", "writeError">>, FALSE,
                    writeError(NewWriter, StatusInternalServerError, ret.err))
    ELSE IF ~ret.hasRes
    THEN HandlerOut("/health/live", ret, <<"server.GetLiveness">>, TRUE, NewWriter)
    ELSE HandlerOut("/health/live", ret, <<"server.GetLiveness", "writeJSON">>, FALSE,
                    writeJSON(NewWriter, LivenessStatusCode(ret.res),
                              EncodeLiveness(TRUE, ret.res)))

\* server.go:68-81
handleGetReadiness(ret) ==
    IF ~IsNilErr(ret.err)
    THEN HandlerOut("/health/ready", ret, <<"server.GetReadiness", "writeError">>, FALSE,
                    writeError(NewWriter, StatusInternalServerError, ret.err))
    ELSE IF ~ret.hasRes
    THEN HandlerOut("/health/ready", ret, <<"server.GetReadiness">>, TRUE, NewWriter)
    ELSE HandlerOut("/health/ready", ret, <<"server.GetReadiness", "writeJSON">>, FALSE,
                    writeJSON(NewWriter, ReadinessStatusCode(ret.res),
                              EncodeReadiness(TRUE, ret.res)))


\* server.go:83-91, answering 503 when a dependency is not healthy.
handleGetStatusByDependencies(ret) ==
    IF ~IsNilErr(ret.err)
    THEN HandlerOut("/status", ret, <<"server.GetStatus", "writeError">>, FALSE,
                    writeError(NewWriter, StatusInternalServerError, ret.err))
    ELSE HandlerOut("/status", ret, <<"server.GetStatus", "writeJSON">>, FALSE,
                    writeJSON(NewWriter,
                              IF ret.hasRes
                                 /\ \E k \in 1 .. Len(ret.res.Dependencies.list) :
                                      ret.res.Dependencies.list[k].Status # "healthy"
                              THEN StatusServiceUnavailable ELSE StatusOK,
                              EncodeStatus(ret.hasRes, ret.res)))

\* server.go:83-91.  The result is not dereferenced: a nil one is encoded.
handleGetStatus(ret) ==
    IF ~IsNilErr(ret.err)
    THEN HandlerOut("/status", ret, <<"server.GetStatus", "writeError">>, FALSE,
                    writeError(NewWriter, StatusInternalServerError, ret.err))
    ELSE HandlerOut("/status", ret, <<"server.GetStatus", "writeJSON">>, FALSE,
                    writeJSON(NewWriter, StatusOK, EncodeStatus(ret.hasRes, ret.res)))

\* server.go:93-103, answering with the text as a JSON document.
handleGetMetricsAsJSON(ret) ==
    IF ~IsNilErr(ret.err)
    THEN HandlerOut("/metrics", ret, <<"server.GetMetrics", "writeError">>, FALSE,
                    writeError(NewWriter, StatusInternalServerError, ret.err))
    ELSE HandlerOut("/metrics", ret, <<"server.GetMetrics", "writeJSON">>, FALSE,
                    writeJSON(NewWriter, StatusOK,
                              Encoded(TRUE, JObj(Fields({<<"metrics",
                                                          JSONString(ret.text.raw)>>})))))

\* server.go:93-103
handleGetMetrics(ret) ==
    IF ~IsNilErr(ret.err)
    THEN HandlerOut("/metrics", ret, <<"server.GetMetrics", "writeError">>, FALSE,
                    writeError(NewWriter, StatusInternalServerError, ret.err))
    ELSE HandlerOut("/metrics", ret, <<"server.GetMetrics", "Write">>, FALSE,
                    Write(WriteHeader(SetContentType(NewWriter,
                                                     "text/plain; version=0.0.4"),
                                      StatusOK),
                          ret.text))

(***************************************************************************)
(* The router RegisterRoutes fills (server.go:30-36): chi registers each   *)
(* handler for GET alone, and answers a request whose path is registered   *)
(* and whose method is not with its method-not-allowed handler, an empty   *)
(* 405 that sets no content type; no handler of HTTPHandler runs.  A       *)
(* request's outcome holds its method and path next to what the handler    *)
(* that served it did; route names that handler.                           *)
(***************************************************************************)
StatusMethodNotAllowed == 405
Methods == {"GET", "POST", "PUT", "DELETE", "PATCH", "HEAD"}

Routed(method, path, out) ==
    [method |-> method, path |-> path, route |-> out.route, ret |-> out.ret,
     log |-> out.log, panicked |-> out.panicked, w |-> out.w]

MethodNotAllowedHandler ==
    HandlerOut("methodNotAllowed", NilRet(NilErr), <<>>, FALSE,
               Write(WriteHeader(NewWriter, StatusMethodNotAllowed), EmptyText))

\* A router that registers the handler for every method, as r.HandleFunc does.
RouteAnyMethod(method, path, handled) == Routed(method, path, handled)

\* r.Get(path, handler), then r.ServeHTTP on a request with that path.
Route(method, path, handled) ==
    Routed(method, path, IF method = "GET" THEN handled ELSE MethodNotAllowedHandler)

\* A request on each of the five paths (server.go:31-35).
ServeHealth ==
    /\ Quiet
    /\ \E method \in Methods, ret \in HealthReturns :
         hout' = Route(method, "/health", handleGetHealth(ret))
    /\ UNCHANGED <<now, srv, bout, cout, nout, inflight>>
ServeLiveness ==
    /\ Quiet
    /\ \E method \in Methods, ret \in LivenessReturns :
         hout' = Route(method, "/health/live", handleGetLiveness(ret))
    /\ UNCHANGED <<now, srv, bout, cout, nout, inflight>>
ServeReadiness ==
    /\ Quiet
    /\ \E method \in Methods, ret \in ReadinessReturns :
         hout' = Route(method, "/health/ready", handleGetReadiness(ret))
    /\ UNCHANGED <<now, srv, bout, cout, nout, inflight>>
ServeStatus ==
    /\ Quiet
    /\ \E method \in Methods, ret \in StatusReturns :
         hout' = Route(method, "/status", handleGetStatus(ret))
    /\ UNCHANGED <<now, srv, bout, cout, nout, inflight>>
ServeMetrics ==
    /\ Quiet
    /\ \E method \in Methods, ret \in MetricsReturns :
         hout' = Route(method, "/metrics", handleGetMetrics(ret))
    /\ UNCHANGED <<now, srv, bout, cout, nout, inflight>>


(***************************************************************************)
(* encoding/json, as json.NewDecoder(resp.Body).Decode uses it.  The       *)
(* decoder reads one JSON value from the stream: an empty stream is        *)
(* io.EOF, a stream cut inside the value is io.ErrUnexpectedEOF or the     *)
(* error the stream ended with, bytes that start no JSON value are a       *)
(* syntax error.  A document null leaves the target at its zero value; an  *)
(* absent or null member leaves the field at its zero value; a member of   *)
(* the wrong JSON type is a type error.  cause is "none" when Decode       *)
(* returns nil.                                                            *)
(***************************************************************************)
Decoded(cause, res) == [cause |-> cause, res |-> res]

\* What reading the stream for one value yields before any field is set.
StreamCause(body, readErr) ==
    IF body.kind = "text" /\ body.raw = ""
    THEN (IF readErr # "none" THEN readErr ELSE "EOF")
    ELSE IF body.kind = "text" THEN "syntax"
    ELSE IF body.kind = "partial"
    THEN (IF readErr # "none" THEN readErr ELSE "unexpected EOF")
    ELSE IF body.kind = "bare" /\ readErr # "none" THEN readErr
    ELSE IF body.root = "other" THEN "type"
    ELSE "none"

Has(body, key) == key \in DOMAIN body.fields /\ body.fields[key].t # "null"
FieldOK(body, key, type) == ~Has(body, key) \/ body.fields[key].t = type
\* The decimal numerals: strconv's reading of a JSON number into an int64
\* and of the digits of a time text.
Digits == "0123456789"
IsDigit(c) == \E i \in 1 .. Len(Digits) : SubSeq(Digits, i, i) = c
DigitValue(c) == (CHOOSE i \in 1 .. Len(Digits) : SubSeq(Digits, i, i) = c) - 1
IsNumeral(str) ==
    Len(str) > 0 /\ \A i \in 1 .. Len(str) : IsDigit(SubSeq(str, i, i))
RECURSIVE ParseNumeral(_, _)
ParseNumeral(str, acc) ==
    IF Len(str) = 0 THEN acc
    ELSE ParseNumeral(SubSeq(str, 2, Len(str)),
                      acc * 10 + DigitValue(SubSeq(str, 1, 1)))
IsIntText(str) ==
    IF Len(str) > 0 /\ SubSeq(str, 1, 1) = "-"
    THEN IsNumeral(SubSeq(str, 2, Len(str)))
    ELSE IsNumeral(str)
ParseInt(str) ==
    IF SubSeq(str, 1, 1) = "-" THEN 0 - ParseNumeral(SubSeq(str, 2, Len(str)), 0)
    ELSE ParseNumeral(str, 0)

\* time.Time.UnmarshalJSON: the text of an instant as RFC3339 writes it,
\* with its nanoseconds after a point when it has any, is read back as that
\* instant, without monotonic reading; a text that is not one, or one of a
\* year beyond 9999, is not read.
PointAt(str) ==
    IF \E i \in 1 .. Len(str) : SubSeq(str, i, i) = "."
    THEN CHOOSE i \in 1 .. Len(str) :
            /\ SubSeq(str, i, i) = "."
            /\ \A j \in 1 .. i - 1 : SubSeq(str, j, j) # "."
    ELSE Len(str) + 1
WallText(str) == SubSeq(str, 2, PointAt(str) - 1)
NanosText(str) == SubSeq(str, PointAt(str) + 1, Len(str))
ParsesAsTime(str) ==
    /\ Len(str) > 1
    /\ SubSeq(str, 1, 1) = "t"
    /\ IsIntText(WallText(str))
    /\ ParseInt(WallText(str)) # BadWall
    /\ PointAt(str) <= Len(str) => IsNumeral(NanosText(str))
ParseTime(str) ==
    Time(ParseInt(WallText(str)),
         IF PointAt(str) <= Len(str) THEN ParseNumeral(NanosText(str), 0) ELSE 0,
         FALSE)
TimeFieldOK(body, key) ==
    ~Has(body, key)
    \/ (body.fields[key].t = "string" /\ ParsesAsTime(body.fields[key].s))
StringField(body, key) == IF Has(body, key) THEN body.fields[key].s ELSE ""
BoolField(body, key) == IF Has(body, key) THEN body.fields[key].s = "true" ELSE FALSE
TimeField(body, key) ==
    IF Has(body, key) THEN ParseTime(body.fields[key].s) ELSE ZeroTime

DecodeHealth(body, readErr) ==
    LET c == StreamCause(body, readErr)
    IN  IF c # "none" THEN Decoded(c, NoRes)
        ELSE IF ~TimeFieldOK(body, "timestamp") THEN Decoded("time", NoRes)
        ELSE IF ~FieldOK(body, "status", "string") THEN Decoded("type", NoRes)
        ELSE Decoded("none", HealthResponse(StringField(body, "status"),
                                            TimeField(body, "timestamp")))

DecodeLiveness(body, readErr) ==
    LET c == StreamCause(body, readErr)
    IN  IF c # "none" THEN Decoded(c, NoRes)
        ELSE IF ~TimeFieldOK(body, "timestamp") THEN Decoded("time", NoRes)
        ELSE IF ~FieldOK(body, "alive", "bool") THEN Decoded("type", NoRes)
        ELSE Decoded("none", LivenessResponse(BoolField(body, "alive"),
                                              TimeField(body, "timestamp")))

ChecksField(body, key) ==
    IF Has(body, key) THEN ChecksMap(FALSE, body.fields[key].m)
    ELSE ChecksMap(TRUE, NoMap)

DecodeReadiness(body, readErr) ==
    LET c == StreamCause(body, readErr)
    IN  IF c # "none" THEN Decoded(c, NoRes)
        ELSE IF ~TimeFieldOK(body, "timestamp") THEN Decoded("time", NoRes)
        ELSE IF ~FieldOK(body, "ready", "bool") \/ ~FieldOK(body, "checks", "object")
        THEN Decoded("type", NoRes)
        ELSE Decoded("none", ReadinessResponse(BoolField(body, "ready"),
                                               TimeField(body, "timestamp"),
                                               ChecksField(body, "checks")))

\* strconv.ParseInt(literal, 10, 64) on an integer literal: it fails with a
\* range error when the value is outside the int64, which has 19 digits.
\* AtMost compares two numerals of the same length digit by digit.
MaxInt64Digits == "9223372036854775807"
MinInt64Digits == "9223372036854775808"
RECURSIVE AtMost(_, _)
AtMost(a, b) ==
    IF Len(a) = 0 THEN TRUE
    ELSE IF SubSeq(a, 1, 1) = SubSeq(b, 1, 1)
    THEN AtMost(SubSeq(a, 2, Len(a)), SubSeq(b, 2, Len(b)))
    ELSE DigitValue(SubSeq(a, 1, 1)) < DigitValue(SubSeq(b, 1, 1))
FitsInt64(literal) ==
    LET neg == SubSeq(literal, 1, 1) = "-"
        digits == IF neg THEN SubSeq(literal, 2, Len(literal)) ELSE literal
        limit == IF neg THEN MinInt64Digits ELSE MaxInt64Digits
    IN  \/ Len(digits) < Len(limit)
        \/ Len(digits) = Len(limit) /\ AtMost(digits, limit)

\* A JSON number is stored into an int64 when it is written as an integer
\* and the int64 holds it; a field of another JSON type, a number with a
\* fraction or an exponent, and a number out of range are type errors.
IntFieldOK(body, key) ==
    ~Has(body, key)
    \/ /\ body.fields[key].t = "number"
       /\ IsIntText(body.fields[key].s)
       /\ FitsInt64(body.fields[key].s)
\* The number read, for the numbers the integers of the model hold.
NumberField(body, key) ==
    IF Has(body, key) THEN ParseInt(body.fields[key].s) ELSE 0

\* The members name, status and version of a dependency are strings: a
\* member of another JSON type is a type error, a null or absent member
\* leaves the field empty.
DependencyMembers == {"name", "status", "version"}
DependencyOK(obj) ==
    \A k \in DependencyMembers \cap DOMAIN obj : obj[k].t \in {"string", "null"}
Member(obj, k) ==
    IF k \in DOMAIN obj /\ obj[k].t = "string" THEN obj[k].s ELSE ""
DependencyOf(obj) ==
    Dependency(Member(obj, "name"), Member(obj, "status"), Member(obj, "version"))
\* dependencies is an array whose elements decode: an absent or null field
\* leaves the slice nil, an array, the empty one too, makes it non-nil.
DepsFieldOK(body, key) ==
    ~Has(body, key)
    \/ /\ body.fields[key].t = "array"
       /\ \A i \in 1 .. Len(body.fields[key].a) : DependencyOK(body.fields[key].a[i])
DepsField(body, key) ==
    IF Has(body, key)
    THEN Deps(FALSE, [i \in 1 .. Len(body.fields[key].a) |->
                        DependencyOf(body.fields[key].a[i])])
    ELSE NilDeps

DecodeStatus(body, readErr) ==
    LET c == StreamCause(body, readErr)
    IN  IF c # "none" THEN Decoded(c, NoRes)
        ELSE IF ~TimeFieldOK(body, "build_time") \/ ~TimeFieldOK(body, "start_time")
        THEN Decoded("time", NoRes)
        ELSE IF \E k \in {"service_name", "version", "git_commit", "environment",
                          "hostname"} : ~FieldOK(body, k, "string")
        THEN Decoded("type", NoRes)
        ELSE IF ~IntFieldOK(body, "uptime_seconds")
                \/ ~DepsFieldOK(body, "dependencies")
        THEN Decoded("type", NoRes)
        ELSE Decoded("none",
               StatusResponse(StringField(body, "service_name"),
                              StringField(body, "version"),
                              StringField(body, "git_commit"),
                              IF Has(body, "build_time")
                              THEN TimePtr(FALSE, TimeField(body, "build_time"))
                              ELSE NilTimePtr,
                              TimeField(body, "start_time"),
                              NumberField(body, "uptime_seconds"),
                              StringField(body, "environment"),
                              StringField(body, "hostname"),
                              DepsField(body, "dependencies")))


(***************************************************************************)
(* The client.  A call is given a context and meets a peer.  ctx is the    *)
(* context's state at the call: "nil", "live", or already ended with       *)
(* "canceled" or "deadline".  The peer says how the exchange goes when the *)
(* context is live at the call: the connection fails (net "fail"), or the  *)
(* context (or the http.Client's Timeout) ends with endCause at endAt --   *)
(* "headers": before the response head arrives, "body": after it and       *)
(* before the body is complete, "never" -- and otherwise the response has  *)
(* status and body, body being the bytes that arrived.                     *)
(***************************************************************************)
Peer(net, endAt, endCause, status, body) ==
    [net |-> net, endAt |-> endAt, endCause |-> endCause,
     status |-> status, body |-> body]

PeerStatuses == {200, 503, 404, 500, 201}
CommonBodies ==
    {EmptyText, Txt("Not Found"), JPartial, JDocNull, JDocOther, JBareNull, JBareOther,
     JObj(NoFields)}
HealthBodies ==
    CommonBodies
    \cup {EncodeHealth(TRUE, HealthResponse(st, TimeNow(0))).doc :
            st \in {HealthStatusHealthy, HealthStatusUnhealthy, "degraded"}}
    \cup {JObj(Fields({<<"status", JNum(1)>>})),
          JObj(Fields({<<"status", JStr("healthy")>>, <<"timestamp", JStr("soon")>>}))}
LivenessBodies ==
    CommonBodies
    \cup {EncodeLiveness(TRUE, LivenessResponse(a, TimeNow(0))).doc : a \in BOOLEAN}
    \cup {JObj(Fields({<<"alive", JStr("yes")>>}))}
ReadinessBodies ==
    CommonBodies
    \cup {EncodeReadiness(TRUE, ReadinessResponse(r, TimeNow(0), c)).doc :
            r \in BOOLEAN, c \in SampleChecks}
    \cup {JObj(Fields({<<"ready", JBool(TRUE)>>, <<"checks", JStr("none")>>}))}
StatusBodies ==
    CommonBodies
    \cup {EncodeStatus(TRUE, r).doc :
            r \in {x \in SampleStatuses : x.StartTime = TimeNow(0) /\ x.UptimeSeconds = 0
                                            /\ (x.GitCommit = "") = x.BuildTime.isNil}}
    \cup {EncodeStatus(TRUE, FullStatus).doc}
    \cup {JObj(Fields({<<"uptime_seconds", JStr("long")>>})),
          JObj(Fields({<<"uptime_seconds", JNumText("9223372036854775808")>>})),
          JObj(Fields({<<"dependencies", JArr(<<>>)>>})),
          JObj(Fields({<<"dependencies",
                         JArr(<<Fields({<<"name", JNum(1)>>})>>)>>})),
          JObj(Fields({<<"dependencies",
                         JArr(<<Fields({<<"name", JStr("db")>>,
                                        <<"version", JNull>>})>>)>>}))}
MetricsBodies == CommonBodies \cup MetricsTexts \cup {defaultMetrics}

Peers(bodies) ==
    {Peer("fail", "never", "none", 0, EmptyText)}
    \cup {Peer("ok", "headers", c, 0, EmptyText) : c \in {"canceled", "deadline"}}
    \cup {Peer("ok", "never", "none", st, b) : st \in PeerStatuses, b \in bodies}
    \cup {Peer("ok", "body", c, st, b) :
            c \in {"canceled", "deadline"}, st \in PeerStatuses, b \in bodies}

\* The calls made of an operation: with a live context against any peer,
\* and with a nil or ended context, which never reads a response, against
\* the peer that fails and the peers that would answer 200.
Calls(bodies) ==
    {call \in Contexts \X Peers(bodies) :
        \/ call[1] = "live"
        \/ call[2].endAt = "never" /\ call[2].status \in {0, StatusOK}}

\* http.Client.Do with the standard transport: an error and no response, or
\* a response whose body stream ends with readErr.
Response(status, body, readErr) ==
    [status |-> status, body |-> body, readErr |-> readErr]
NoResponse == Response(0, EmptyText, "none")
DoResult(cause, resp) == [cause |-> cause, resp |-> resp]
Do(ctx, peer) ==
    IF ctx # "live" THEN DoResult(ctx, NoResponse)
    ELSE IF peer.net = "fail" THEN DoResult("dial", NoResponse)
    ELSE IF peer.endAt = "headers" THEN DoResult(peer.endCause, NoResponse)
    ELSE DoResult("none",
                  Response(peer.status, peer.body,
                           IF peer.endAt = "body" THEN peer.endCause ELSE "none"))

\* The outcome of the request phase: the calls made, the error, the response.
Request(log, err, resp) == [log |-> log, err |-> err, resp |-> resp]

\* doRequest trying Do a second time when the first attempt fails.
doRequestRetrying(ctx, peer) ==
    IF ctx = "nil"
    THEN Request(<<"NewRequest">>,
                 Err("creating request", "", 0, EmptyText, "nil Context"), NoResponse)
    ELSE LET d == Do(ctx, peer)
         IN  IF d.cause # "none"
             THEN Request(<<"NewRequest", "Do", "Do">>,
                          Err("executing request", "", 0, EmptyText, d.cause),
                          NoResponse)
             ELSE Request(<<"NewRequest", "Do">>, NilErr, d.resp)

\* client.go:60-75 (and client.go:158-168, the same steps inside GetMetrics):
\* http.NewRequestWithContext refuses a nil context; then one Do.
doRequest(ctx, peer) ==
    IF ctx = "nil"
    THEN Request(<<"NewRequest">>,
                 Err("creating request", "", 0, EmptyText, "nil Context"), NoResponse)
    ELSE LET d == Do(ctx, peer)
         IN  IF d.cause # "none"
             THEN Request(<<"NewRequest", "Do">>,
                          Err("executing request", "", 0, EmptyText, d.cause),
                          NoResponse)
             ELSE Request(<<"NewRequest", "Do">>, NilErr, d.resp)

\* fmt.Errorf("unexpected status code %d: %s", resp.StatusCode, string(body)),
\* body being what io.ReadAll read, its error dropped.
StatusErr(resp) == Err("unexpected status code", "", resp.status, resp.body, "none")
DecodeErr(cause) == Err("decoding response", "", 0, EmptyText, cause)

ClientOut(op, ctx, peer, log, hasRes, res, text, err) ==
    [op |-> op, ctx |-> ctx, peer |-> peer, log |-> log, hasRes |-> hasRes,
     res |-> res, text |-> text, err |-> err]

\* The request a call hands to c.httpClient.Do: its method, its URL and its
\* Accept header.  TheClient is the client the calls are made on.
HTTPRequest(method, url, accept) == [method |-> method, url |-> url, accept |-> accept]
NoRequest == HTTPRequest("", "", "")
TheClient == [baseURL |-> "http://localhost:8080/api/v1", httpClient |-> "own"]

\* client.go:61-67: the request doRequest builds.
NewRequest(c, method, path) == HTTPRequest(method, c.baseURL \o path, "application/json")
\* The request of GetMetrics built as doRequest builds its requests.
MetricsRequestThroughDoRequest(c) == NewRequest(c, "GET", "/metrics")
\* client.go:158-163: the request GetMetrics builds.
MetricsRequest(c) == HTTPRequest("GET", c.baseURL \o "/metrics", "text/plain")

\* The outcome of a call together with the request it sent, if it sent one.
Sent(out, req) ==
    [op |-> out.op, ctx |-> out.ctx, peer |-> out.peer, log |-> out.log,
     hasRes |-> out.hasRes, res |-> out.res, text |-> out.text, err |-> out.err,
     req |-> IF \E i \in DOMAIN out.log : out.log[i] = "Do" THEN req ELSE NoRequest]

\* AcceptsProbe without the 503 case.
AcceptsProbeOnlyOK(status) == ~(status # StatusOK)

\* The status test of GetHealth, GetLiveness and GetReadiness
\* (client.go:84, 104, 124) and of GetStatus and GetMetrics (client.go:144, 171).
AcceptsProbe(status) ==
    ~(status # StatusOK /\ status # StatusServiceUnavailable)
AcceptsOnlyOK(status) == ~(status # StatusOK)

\* GetJSON returning the partly decoded value together with the decode error.
GetJSONKeepingResult(op, ctx, peer, accepted, dec) ==
    LET r == doRequest(ctx, peer)
    IN  IF ~IsNilErr(r.err)
        THEN ClientOut(op, ctx, peer, r.log, FALSE, NoRes, EmptyText, r.err)
        ELSE IF ~accepted
        THEN ClientOut(op, ctx, peer, r.log \o <<"ReadAll", "Close">>, FALSE, NoRes,
                       EmptyText, StatusErr(r.resp))
        ELSE ClientOut(op, ctx, peer, r.log \o <<"Decode", "Close">>, TRUE, dec.res,
                       EmptyText,
                       IF dec.cause # "none" THEN DecodeErr(dec.cause) ELSE NilErr)

\* The body of the four JSON operations after doRequest: client.go:79-94,
\* 99-114, 119-134, 139-154.
GetJSON(op, ctx, peer, accepted, dec) ==
    LET r == doRequest(ctx, peer)
    IN  IF ~IsNilErr(r.err)
        THEN ClientOut(op, ctx, peer, r.log, FALSE, NoRes, EmptyText, r.err)
        ELSE IF ~accepted
        THEN ClientOut(op, ctx, peer, r.log \o <<"ReadAll", "Close">>, FALSE, NoRes,
                       EmptyText, StatusErr(r.resp))
        ELSE IF dec.cause # "none"
        THEN ClientOut(op, ctx, peer, r.log \o <<"Decode", "Close">>, FALSE, NoRes,
                       EmptyText, DecodeErr(dec.cause))
        ELSE ClientOut(op, ctx, peer, r.log \o <<"Decode", "Close">>, TRUE, dec.res,
                       EmptyText, NilErr)

\* client.go:77-95
ClientGetHealth(ctx, peer) ==
    LET resp == doRequest(ctx, peer).resp
    IN  Sent(GetJSON("GetHealth", ctx, peer, AcceptsProbe(resp.status),
                     DecodeHealth(resp.body, resp.readErr)),
             NewRequest(TheClient, "GET", "/health"))

\* client.go:97-115
ClientGetLiveness(ctx, peer) ==
    LET resp == doRequest(ctx, peer).resp
    IN  Sent(GetJSON("GetLiveness", ctx, peer, AcceptsProbe(resp.status),
                     DecodeLiveness(resp.body, resp.readErr)),
             NewRequest(TheClient, "GET", "/health/live"))

\* client.go:117-135
ClientGetReadiness(ctx, peer) ==
    LET resp == doRequest(ctx, peer).resp
    IN  Sent(GetJSON("GetReadiness", ctx, peer, AcceptsProbe(resp.status),
                     DecodeReadiness(resp.body, resp.readErr)),
             NewRequest(TheClient, "GET", "/health/ready"))

\* ClientGetStatus with the status test of the probe operations.
ClientGetStatusAccepting503(ctx, peer) ==
    LET resp == doRequest(ctx, peer).resp
    IN  Sent(GetJSON("GetStatus", ctx, peer, AcceptsProbe(resp.status),
                     DecodeStatus(resp.body, resp.readErr)),
             NewRequest(TheClient, "GET", "/status"))

\* client.go:137-155
ClientGetStatus(ctx, peer) ==
    LET resp == doRequest(ctx, peer).resp
    IN  Sent(GetJSON("GetStatus", ctx, peer, AcceptsOnlyOK(resp.status),
                     DecodeStatus(resp.body, resp.readErr)),
             NewRequest(TheClient, "GET", "/status"))

\* ClientGetMetrics without the status test: any response's body is returned.
ClientGetMetricsAnyStatus(ctx, peer) ==
    LET r == doRequest(ctx, peer)
        out ==
          IF ~IsNilErr(r.err)
                  THEN ClientOut("GetMetrics", ctx, peer, r.log, FALSE, NoRes, EmptyText, r.err)
                  ELSE IF r.resp.readErr # "none"
                  THEN ClientOut("GetMetrics", ctx, peer, r.log \o <<"ReadAll", "Close">>, FALSE,
                                 NoRes, EmptyText,
                                 Err("reading response body", "", 0, EmptyText, r.resp.readErr))
                  ELSE ClientOut("GetMetrics", ctx, peer, r.log \o <<"ReadAll", "Close">>, FALSE,
                                 NoRes, r.resp.body, NilErr)
    IN  Sent(out, MetricsRequest(TheClient))

\* client.go:157-182
ClientGetMetrics(ctx, peer) ==
    LET r == doRequest(ctx, peer)
        out ==
          IF ~IsNilErr(r.err)
                  THEN ClientOut("GetMetrics", ctx, peer, r.log, FALSE, NoRes, EmptyText, r.err)
                  ELSE IF ~AcceptsOnlyOK(r.resp.status)
                  THEN ClientOut("GetMetrics", ctx, peer, r.log \o <<"ReadAll", "Close">>, FALSE,
                                 NoRes, EmptyText, StatusErr(r.resp))
                  ELSE IF r.resp.readErr # "none"
                  THEN ClientOut("GetMetrics", ctx, peer, r.log \o <<"ReadAll", "Close">>, FALSE,
                                 NoRes, EmptyText,
                                 Err("reading response body", "", 0, EmptyText, r.resp.readErr))
                  ELSE ClientOut("GetMetrics", ctx, peer, r.log \o <<"ReadAll", "Close">>, FALSE,
                                 NoRes, r.resp.body, NilErr)
    IN  Sent(out, MetricsRequest(TheClient))

CallGetHealth ==
    /\ Quiet
    /\ \E call \in Calls(HealthBodies) : cout' = ClientGetHealth(call[1], call[2])
    /\ UNCHANGED <<now, srv, bout, hout, nout, inflight>>
CallGetLiveness ==
    /\ Quiet
    /\ \E call \in Calls(LivenessBodies) : cout' = ClientGetLiveness(call[1], call[2])
    /\ UNCHANGED <<now, srv, bout, hout, nout, inflight>>
CallGetReadiness ==
    /\ Quiet
    /\ \E call \in Calls(ReadinessBodies) : cout' = ClientGetReadiness(call[1], call[2])
    /\ UNCHANGED <<now, srv, bout, hout, nout, inflight>>
CallGetStatus ==
    /\ Quiet
    /\ \E call \in Calls(StatusBodies) : cout' = ClientGetStatus(call[1], call[2])
    /\ UNCHANGED <<now, srv, bout, hout, nout, inflight>>
CallGetMetrics ==
    /\ Quiet
    /\ \E call \in Calls(MetricsBodies) : cout' = ClientGetMetrics(call[1], call[2])
    /\ UNCHANGED <<now, srv, bout, hout, nout, inflight>>

(***************************************************************************)
(* NewClient and its options (client.go:28-58).  A base URL is a raw       *)
(* string; url.Parse either rejects it or yields a URL whose String() is   *)
(* the stored base URL (the scheme in lower case).  An http.Client is an   *)
(* object on the heap: "own" is the one NewClient allocates, "supplied"    *)
(* the one the caller passes to WithHTTPClient, and "nil" the nil pointer. *)
(* heap maps an object to its Timeout field, in seconds, so that a write   *)
(* through the client's pointer is seen by whoever holds the same object.  *)
(***************************************************************************)
DefaultTimeout == 30

\* The raw base URLs, with what url.Parse makes of each: ok tells whether
\* it parses, str is String() of the parsed URL.
URLParse(ok, str) == [ok |-> ok, str |-> str]

BaseURLs ==
    {"http://localhost:8080", "http://localhost:8080/api/v1",
     "HTTP://localhost:8080", "", "://invalid", "http://local host"}

Parse(baseURL) ==
    CASE baseURL = "://invalid"            -> URLParse(FALSE, "")
      [] baseURL = "http://local host"     -> URLParse(FALSE, "")
      [] baseURL = "HTTP://localhost:8080" -> URLParse(TRUE, "http://localhost:8080")
      [] OTHER                             -> URLParse(TRUE, baseURL)

\* ClientOption values.  A WithTimeout carries its duration, a
\* WithHTTPClient the pointer it was given.
Option(name, timeout, hc) == [name |-> name, timeout |-> timeout, hc |-> hc]
WithTimeout(timeout) == Option("WithTimeout", timeout, "nil")
WithHTTPClient(httpClient) == Option("WithHTTPClient", 0, httpClient)

OptionTimeouts == {0, 5}
SuppliedTimeouts == {0, 10}
Options ==
    {WithTimeout(t) : t \in OptionTimeouts}
        \cup {WithHTTPClient(h) : h \in {"nil", "supplied"}}

RECURSIVE OptionLists(_)
OptionLists(n) ==
    IF n = 0 THEN {<<>>}
    ELSE LET shorter == OptionLists(n - 1)
         IN  shorter \cup {Append(l, o) : l \in {x \in shorter : Len(x) = n - 1},
                                          o \in Options}

\* The client under construction: c is the client struct (httpClient the
\* pointer it holds), heap the Timeout of each http.Client object, applied
\* the number of options that have run, panicked whether one of them
\* dereferenced a nil pointer.
Building(baseURL, httpClient, heap, applied, panicked) ==
    [c        |-> [baseURL |-> baseURL, httpClient |-> httpClient],
     heap     |-> heap,
     applied  |-> applied,
     panicked |-> panicked]

Heap(own, supplied) == [own |-> own, supplied |-> supplied]

\* opt(c), client.go:48-58.
ApplyOption(b, opt) ==
    IF opt.name = "WithHTTPClient"
    THEN [b EXCEPT !.c.httpClient = opt.hc, !.applied = @ + 1]
    ELSE IF b.c.httpClient = "nil"
         THEN [b EXCEPT !.applied = @ + 1, !.panicked = TRUE]
         ELSE [b EXCEPT !.heap[b.c.httpClient] = opt.timeout,
                        !.applied = @ + 1]

\* for _, opt := range opts { opt(c) }, client.go:41-43: the loop ends at
\* the first option that panics.
RECURSIVE ApplyOptions(_, _, _)
ApplyOptions(b, opts, i) ==
    IF i > Len(opts) \/ b.panicked THEN b
    ELSE ApplyOptions(ApplyOption(b, opts[i]), opts, i + 1)

\* The outcome of NewClient: its arguments, the client and the error it
\* returned (hasClient tells whether the Client is non-nil), the heap when
\* it ended, and the number of requests it sent.
NewClientOut(op, baseURL, opts, supplied, hasClient, b, err, requests) ==
    [op        |-> op,
     baseURL   |-> baseURL,
     opts      |-> opts,
     supplied  |-> supplied,
     hasClient |-> hasClient,
     c         |-> b.c,
     heap      |-> b.heap,
     applied   |-> b.applied,
     panicked  |-> b.panicked,
     err       |-> err,
     requests  |-> requests]

NoBuilding == Building("", "nil", Heap(0, 0), 0, FALSE)
NoNewClientOut ==
    NewClientOut("none", "", <<>>, 0, FALSE, NoBuilding, NilErr, 0)

InvalidURLErr == Err("invalid base URL", "", 0, EmptyText, "url.Parse")

\* supplied is the Timeout the caller's http.Client has when NewClient is
\* called.
NewClient(baseURL, opts, supplied) ==
    LET u == Parse(baseURL)
        start == Building(u.str, "own", Heap(DefaultTimeout, supplied), 0, FALSE)
        built == ApplyOptions(start, opts, 1)
    IN  IF ~u.ok
        THEN NewClientOut("NewClient", baseURL, opts, supplied, FALSE,
                          [NoBuilding EXCEPT !.heap = Heap(0, supplied)],
                          InvalidURLErr, 0)
        ELSE NewClientOut("NewClient", baseURL, opts, supplied,
                          ~built.panicked, built, NilErr, 0)

\* The constructions made: every list of options with the base URL of the
\* README, and every base URL with at most one option.
Constructions ==
    {con \in BaseURLs \X OptionLists(MaxOpts) :
        con[1] = "http://localhost:8080" \/ Len(con[2]) <= 1}

CallNewClient ==
    /\ Quiet
    /\ \E con \in Constructions, supplied \in SuppliedTimeouts :
            nout' = NewClient(con[1], con[2], supplied)
    /\ UNCHANGED <<now, srv, bout, hout, cout, inflight>>

(***************************************************************************)
(* The specification.                                                      *)
(***************************************************************************)
NoHandlerOut ==
    Routed("GET", "none", HandlerOut("none", NilRet(NilErr), <<>>, FALSE, NewWriter))
NoClientOut ==
    Sent(ClientOut("none", "live", Peer("ok", "never", "none", 0, EmptyText), <<>>,
                   FALSE, NoRes, EmptyText, NilErr),
         NoRequest)

\* The caller has taken the result of its call.
Return ==
    /\ ~Quiet
    /\ bout' = NoBackendOut
    /\ hout' = NoHandlerOut
    /\ cout' = NoClientOut
    /\ nout' = NoNewClientOut
    /\ UNCHANGED <<now, srv, inflight>>

\* ---------------------------------------------------------------------
\* Concurrent requests and calls (server_test.go:757-776, part_001:628-697):
\* goroutines that each serve one request through the router or make one
\* call on the one client.  A goroutine holds its request and what it has
\* got so far in its own locals; the router, the handler, the Server and the
\* client are shared and only read.
MaxGoroutines == 2
Goroutines == 1 .. MaxGoroutines
Routes == {"/health", "/health/live", "/health/ready", "/status", "/metrics"}
Operations == {"GetHealth", "GetLiveness", "GetReadiness", "GetStatus", "GetMetrics"}

\* server_test.go:27-66: what the mockServer returns on a route.
MockResult(route) ==
    CASE route = "/health" ->
           ServerRet(TRUE, HealthResponse(HealthStatusHealthy, TimeNow(0)), EmptyText, NilErr)
      [] route = "/health/live" ->
           ServerRet(TRUE, LivenessResponse(TRUE, TimeNow(0)), EmptyText, NilErr)
      [] route = "/health/ready" ->
           ServerRet(TRUE, ReadinessResponse(TRUE, TimeNow(0), ChecksMap(FALSE, NoMap)),
                     EmptyText, NilErr)
      [] route = "/status" ->
           ServerRet(TRUE, StatusResponse("test", "1.0.0", "", NilTimePtr, TimeNow(0), 100,
                                          "test", "", NilDeps),
                     EmptyText, NilErr)
      [] route = "/metrics" -> ServerRet(FALSE, NoRes, Txt("# metrics"), NilErr)
\* What a Server of the concurrent requests returns on a route: the mock's
\* result, an error, or neither.
MockReturns(route) ==
    {MockResult(route), NilRet(OpaqueErr("backend failed"))}
    \cup (IF route = "/metrics" THEN {} ELSE {NilRet(NilErr)})

\* server.go:30-36: the handler the router runs for a GET on the route.
ServeHTTP(route, ret) ==
    Route("GET", route,
          CASE route = "/health" -> handleGetHealth(ret)
            [] route = "/health/live" -> handleGetLiveness(ret)
            [] route = "/health/ready" -> handleGetReadiness(ret)
            [] route = "/status" -> handleGetStatus(ret)
            [] route = "/metrics" -> handleGetMetrics(ret))

\* part_001:629-660: the answer of the test server to each operation, a
\* 200 with the encoded response or the metrics text.
MockPeers(op) ==
    {Peer("ok", "never", "none", StatusOK,
          CASE op = "GetHealth" ->
                 EncodeHealth(TRUE, HealthResponse(HealthStatusHealthy, TimeNow(0))).doc
            [] op = "GetLiveness" ->
                 EncodeLiveness(TRUE, LivenessResponse(TRUE, TimeNow(0))).doc
            [] op = "GetReadiness" ->
                 EncodeReadiness(TRUE,
                     ReadinessResponse(TRUE, TimeNow(0),
                                       ChecksMap(FALSE, [k \in {"test"} |-> "ok"]))).doc
            [] op = "GetStatus" ->
                 EncodeStatus(TRUE,
                     StatusResponse("test", "1.0.0", "", NilTimePtr, TimeNow(0), 100,
                                    "test", "", NilDeps)).doc
            [] op = "GetMetrics" -> Txt("# metrics"))}

\* part_001:668-690: the client operation a goroutine calls.
ClientCall(op, ctx, peer) ==
    CASE op = "GetHealth" -> ClientGetHealth(ctx, peer)
      [] op = "GetLiveness" -> ClientGetLiveness(ctx, peer)
      [] op = "GetReadiness" -> ClientGetReadiness(ctx, peer)
      [] op = "GetStatus" -> ClientGetStatus(ctx, peer)
      [] op = "GetMetrics" -> ClientGetMetrics(ctx, peer)

\* The locals of a goroutine: what it is doing (kind, op), where it is (pc),
\* the Server's return or the context and peer of its call, and its outcome.
Frame(kind, op, pc, ret, ctx, peer, out, cl) ==
    [kind |-> kind, op |-> op, pc |-> pc, ret |-> ret, ctx |-> ctx, peer |-> peer,
     out |-> out, cl |-> cl]
IdleFrame ==
    Frame("idle", "none", "idle", NilRet(NilErr), "live", NoClientOut.peer,
          NoHandlerOut, NoClientOut)

\* server.go:39, 54, 69, 84, 94: a request arrived on a route and its handler
\* has the Server's return in resp, err.
Arrive ==
    /\ \E g \in Goroutines, route \in Routes :
         \E ret \in MockReturns(route) :
            /\ inflight[g].pc = "idle"
            /\ inflight' = [inflight EXCEPT ![g] =
                   Frame("request", route, "invoked", ret, "live", NoClientOut.peer,
                         NoHandlerOut, NoClientOut)]
    /\ UNCHANGED <<now, srv, bout, hout, cout, nout>>

\* server.go:40-50: the handler writes the response from its resp, err.
Respond ==
    /\ \E g \in Goroutines :
         /\ inflight[g].pc = "invoked"
         /\ inflight' = [inflight EXCEPT ![g] =
                [inflight[g] EXCEPT !.pc = "responded",
                                    !.out = ServeHTTP(inflight[g].op, inflight[g].ret)]]
    /\ UNCHANGED <<now, srv, bout, hout, cout, nout>>

\* client.go:61-69, 158-165: a call built its request and handed it to Do.
Call ==
    /\ \E g \in Goroutines, op \in Operations, ctx \in {"live", "canceled"} :
         \E peer \in MockPeers(op) :
            /\ inflight[g].pc = "idle"
            /\ inflight' = [inflight EXCEPT ![g] =
                   Frame("call", op, "sent", NilRet(NilErr), ctx, peer,
                         NoHandlerOut, NoClientOut)]
    /\ UNCHANGED <<now, srv, bout, hout, cout, nout>>

\* client.go:69-94, 165-181: Do returned and the call returns its outcome.
Complete ==
    /\ \E g \in Goroutines :
         /\ inflight[g].pc = "sent"
         /\ inflight' = [inflight EXCEPT ![g] =
                [inflight[g] EXCEPT !.pc = "returned",
                                    !.cl = ClientCall(inflight[g].op, inflight[g].ctx,
                                                      inflight[g].peer)]]
    /\ UNCHANGED <<now, srv, bout, hout, cout, nout>>

\* The goroutine ended.
Exit ==
    /\ \E g \in Goroutines :
         /\ inflight[g].pc \in {"responded", "returned"}
         /\ inflight' = [inflight EXCEPT ![g] = IdleFrame]
    /\ UNCHANGED <<now, srv, bout, hout, cout, nout>>

Init ==
    /\ now = 0
    /\ srv = NewBaseServer("svc", "1.0.0", "prod", 0)
    /\ bout = NoBackendOut
    /\ hout = NoHandlerOut
    /\ cout = NoClientOut
    /\ nout = NoNewClientOut
    /\ inflight = [g \in Goroutines |-> IdleFrame]

Next ==
    \/ Tick
    \/ SetCheckFunc
    \/ SetMetricsFunc
    \/ SetStaticFields
    \/ SetStartTime
    \/ BaseGetHealth
    \/ BaseGetLiveness
    \/ BaseGetReadiness
    \/ BaseGetStatus
    \/ BaseGetMetrics
    \/ ServeHealth
    \/ ServeLiveness
    \/ ServeReadiness
    \/ ServeStatus
    \/ ServeMetrics
    \/ CallGetHealth
    \/ CallGetLiveness
    \/ CallGetReadiness
    \/ CallGetStatus
    \/ CallGetMetrics
    \/ CallNewClient
    \/ Return

Spec == Init /\ [][Next]_vars

\* The concurrent program: requests and calls in flight together.
ConcurrentNext ==
    \/ Arrive
    \/ Respond
    \/ Call
    \/ Complete
    \/ Exit

ConcurrentSpec == Init /\ [][ConcurrentNext]_vars

(***************************************************************************)
(* Properties.                                                             *)
(***************************************************************************)

\* C1: BaseServer.GetReadiness returns ready = true if and only if every
\* value of the mapping the check-provider returned is one of "connected",
\* "available", "reachable", "healthy"; the mapping is returned as Checks;
\* without a provider the result is ready with an empty mapping.
ReadinessIffEveryCheckPasses ==
    bout.op = "GetReadiness" =>
        /\ bout.hasRes /\ IsNilErr(bout.err)
        /\ bout.res.Ready <=>
              \A k \in DOMAIN bout.res.Checks.m :
                  bout.res.Checks.m[k] \in {"connected", "available", "reachable", "healthy"}
        /\ srv.CheckFunc # "nil" => bout.fnCalls = 1 /\ bout.res.Checks = bout.fnChecks
        /\ srv.CheckFunc = "nil" =>
              bout.fnCalls = 0 /\ bout.res.Ready /\ DOMAIN bout.res.Checks.m = {}

\* A provider whose mapping holds every name, one value passing and one the
\* empty string: not ready.
ReadinessWitness ==
    /\ bout.op = "GetReadiness"
    /\ srv.CheckFunc # "nil"
    /\ DOMAIN bout.res.Checks.m = CheckNames
    /\ \E k \in CheckNames : bout.res.Checks.m[k] = "reachable"
    /\ \E k \in CheckNames : bout.res.Checks.m[k] = ""
    /\ ~bout.res.Ready

\* A result of the Server that came without error, on the given route.
Served(route) ==
    hout.route = route /\ IsNilErr(hout.ret.err) /\ hout.ret.hasRes

\* C2: for every HealthResult the backend returns without error, GET /health
\* responds 200 if its status is Healthy and 503 for every other status.
HealthCodeIs200OnlyIfHealthy ==
    Served("/health") =>
        hout.w.status = (IF hout.ret.res.Status = "healthy" THEN 200 ELSE 503)

\* C3: GET /health/live responds 200 exactly when alive and 503 exactly when
\* not, GET /health/ready 200 exactly when ready and 503 exactly when not,
\* whatever the checks mapping and the timestamp of the result.
ProbeCodeFollowsTheBoolean ==
    /\ Served("/health/live") =>
          /\ hout.w.status \in {200, 503}
          /\ hout.w.status = 200 <=> hout.ret.res.Alive
    /\ Served("/health/ready") =>
          /\ hout.w.status \in {200, 503}
          /\ hout.w.status = 200 <=> hout.ret.res.Ready

\* A readiness result that is not ready although its only check passes.
ProbeCodeWitness ==
    /\ Served("/health/ready")
    /\ ~hout.ret.res.Ready
    /\ ~hout.ret.res.Checks.isNil
    /\ \E k \in DOMAIN hout.ret.res.Checks.m : hout.ret.res.Checks.m[k] = "connected"
    /\ hout.w.status = 503

\* C4: on each of the five routes, when the Server's call returns an error
\* the response is 500 with the one JSON document {"error": message} as its
\* body, whatever result came with the error: no success body, no 200, no 503.
BackendErrorGives500 ==
    (hout.route # "none" /\ ~IsNilErr(hout.ret.err)) =>
        /\ ~hout.panicked
        /\ hout.w.status = 500
        /\ Len(hout.w.body) = 1
        /\ hout.w.body[1].kind = "json" /\ hout.w.body[1].root = "object"
        /\ DOMAIN hout.w.body[1].fields = {"error"}
        /\ hout.w.body[1].fields["error"] = JSONString(hout.ret.err.msg)

\* A healthy result returned together with an error.
BackendErrorWitness ==
    /\ hout.route = "/health"
    /\ hout.ret.hasRes /\ hout.ret.res.Status = "healthy"
    /\ hout.ret.err.msg = "backend failed"
    /\ hout.w.status = 500

\* The last client call was given a response: the context was live at the
\* call and the response head arrived.
Delivered ==
    /\ cout.op # "none"
    /\ cout.ctx = "live"
    /\ cout.peer.net = "ok"
    /\ cout.peer.endAt # "headers"
\* The error the stream of that response ended with.
StreamErr == IF cout.peer.endAt = "body" THEN cout.peer.endCause ELSE "none"
\* The error is the unexpected-status error carrying the response's status
\* code and the body text that arrived.
IsStatusError ==
    /\ cout.err.kind = "unexpected status code"
    /\ cout.err.code = cout.peer.status
    /\ cout.err.body = cout.peer.body
\* What decoding the response's body into the operation's result type gives.
DecodingOfBody ==
    IF cout.op = "GetHealth" THEN DecodeHealth(cout.peer.body, StreamErr)
    ELSE IF cout.op = "GetLiveness" THEN DecodeLiveness(cout.peer.body, StreamErr)
    ELSE IF cout.op = "GetReadiness" THEN DecodeReadiness(cout.peer.body, StreamErr)
    ELSE DecodeStatus(cout.peer.body, StreamErr)

\* C5: GetHealth, GetLiveness and GetReadiness given a response with status
\* 200 or 503 return the result decoded from its body and no error; given
\* any other status they return no result and an error carrying the status
\* code and the body text; given 200 or 503 with a body that does not decode
\* they return no result and a decode error, which is not the status error.
ProbeCallsAccept200And503 ==
    (cout.op \in {"GetHealth", "GetLiveness", "GetReadiness"} /\ Delivered) =>
        /\ cout.peer.status \notin {200, 503} =>
              ~cout.hasRes /\ IsStatusError
        /\ (cout.peer.status \in {200, 503} /\ DecodingOfBody.cause = "none") =>
              cout.hasRes /\ cout.err.kind = "nil" /\ cout.res = DecodingOfBody.res
        /\ (cout.peer.status \in {200, 503} /\ DecodingOfBody.cause # "none") =>
              /\ ~cout.hasRes
              /\ cout.err.kind = "decoding response"
              /\ cout.err.cause = DecodingOfBody.cause

\* GetHealth given 503 with the encoding of an unhealthy result.
ProbeCallsWitness ==
    /\ cout.op = "GetHealth" /\ Delivered
    /\ cout.peer.status = 503
    /\ cout.peer.body.kind = "json"
    /\ cout.hasRes /\ cout.err.kind = "nil"
    /\ cout.res.Status = "unhealthy"
    /\ cout.res.Timestamp.wall = 0

\* C6: GetStatus given a response with any status other than 200, 503 with a
\* well-formed StatusResult body included, returns no result and an error
\* carrying the status code and the body text.
GetStatusAcceptsOnly200 ==
    (cout.op = "GetStatus" /\ Delivered /\ cout.peer.status # 200) =>
        ~cout.hasRes /\ IsStatusError

\* GetStatus given 503 with the encoding of a StatusResult.
GetStatusWitness ==
    /\ cout.op = "GetStatus" /\ Delivered
    /\ cout.peer.status = 503
    /\ cout.peer.body.kind = "json" /\ cout.peer.body.root = "object"
    /\ "service_name" \in DOMAIN cout.peer.body.fields
    /\ DecodingOfBody.cause = "none"
    /\ ~cout.hasRes /\ cout.err.code = 503

\* C7: GetMetrics given a 200 response returns exactly the body text, the
\* empty body included, and no error; given any other status it returns the
\* empty string and an error carrying the status code and the body text.
GetMetricsReturnsTheBody ==
    (cout.op = "GetMetrics" /\ Delivered) =>
        /\ (cout.peer.status = 200 /\ cout.peer.endAt = "never") =>
              cout.err.kind = "nil" /\ cout.text = cout.peer.body
        /\ cout.peer.status # 200 =>
              IsStatusError /\ cout.text = EmptyText

\* GetMetrics given 200 with a metrics text.
GetMetricsWitness ==
    /\ cout.op = "GetMetrics" /\ Delivered
    /\ cout.peer.status = 200 /\ cout.peer.endAt = "never"
    /\ cout.peer.body = Txt("# metrics")
    /\ cout.text = Txt("# metrics") /\ cout.err.kind = "nil"

\* The context of the last client call was cancelled or had expired at the
\* call, or was cancelled or expired while the request was in flight.
ContextEnded ==
    /\ cout.op # "none"
    /\ \/ cout.ctx \in {"canceled", "deadline"}
       \/ cout.ctx = "live" /\ cout.peer.net = "ok" /\ cout.peer.endAt \in {"headers", "body"}

\* C8: a client call whose context is cancelled or expired, at the call or
\* while the request is in flight, returns no result and a transport error
\* wrapping the cancellation or deadline cause, not the status error and not
\* the decode error.
EndedContextGivesTransportError ==
    ContextEnded =>
        /\ ~cout.hasRes /\ cout.text = EmptyText
        /\ cout.err.kind = "executing request"
        /\ cout.err.cause \in {"canceled", "deadline"}

\* How often a call is in a log.
Occurrences(log, calls) == Cardinality({i \in DOMAIN log : log[i] \in calls})
ServerCalls ==
    {"server.GetHealth", "server.GetLiveness", "server.GetReadiness",
     "server.GetStatus", "server.GetMetrics"}

\* C9: no operation retries: a client call issues at most one HTTP request
\* and a handler request invokes its Server operation at most once, on the
\* success path and on every failure path.
AtMostOneAttempt ==
    /\ cout.op # "none" => Occurrences(cout.log, {"Do"}) <= 1
    /\ hout.route # "none" => Occurrences(hout.log, ServerCalls) <= 1

\* A client call that failed in the transport after its one request.
AtMostOneAttemptWitness ==
    /\ cout.op = "GetStatus"
    /\ cout.err.kind = "executing request" /\ cout.err.cause = "dial"
    /\ Occurrences(cout.log, {"Do"}) = 1

\* A pointer result and an error exclude each other; a text comes with an
\* error only as the empty text.
SuccessOrFailure(out, isText) ==
    IF out.err.kind = "nil" THEN isText \/ out.hasRes
    ELSE ~out.hasRes /\ out.text = EmptyText

\* C10 as stated: every BaseServer operation and every client operation
\* returns either a result with no error or an error with no result or an
\* empty one, for every configuration.
NoMixedOutcome ==
    /\ bout.op # "none" => SuccessOrFailure(bout, bout.op = "GetMetrics")
    /\ cout.op # "none" => SuccessOrFailure(cout, cout.op = "GetMetrics")

\* C10 as amended: every client operation, and every BaseServer operation
\* except GetMetrics with a metrics-provider configured, returns either a
\* result with no error or an error with no result; BaseServer.GetMetrics
\* with a provider returns the provider's text and error as they are, so it
\* returns a text with an error exactly when the provider did.
NoMixedOutcomeButFromProvider ==
    /\ (bout.op # "none" /\ ~(bout.op = "GetMetrics" /\ srv.MetricsFunc # "nil")) =>
          SuccessOrFailure(bout, bout.op = "GetMetrics")
    /\ (bout.op = "GetMetrics" /\ srv.MetricsFunc # "nil") =>
          bout.text = bout.fnText /\ bout.err = bout.fnErr /\ ~bout.hasRes
    /\ cout.op # "none" => SuccessOrFailure(cout, cout.op = "GetMetrics")

\* A provider returned a text with an error, and GetMetrics returned both.
NoMixedOutcomeWitness ==
    /\ bout.op = "GetMetrics" /\ srv.MetricsFunc # "nil"
    /\ bout.text = Txt("partial") /\ bout.err.msg = "metrics collection failed"

\* The Timeout of the http.Client a constructed client sends its requests
\* with; NoTimeoutInEffect when it holds the nil pointer.
NoTimeoutInEffect == 0 - 1
TimeoutInEffect ==
    IF nout.c.httpClient = "nil" THEN NoTimeoutInEffect
    ELSE nout.heap[nout.c.httpClient]

TimeoutOptionsGiven ==
    {i \in 1..Len(nout.opts) : nout.opts[i].name = "WithTimeout"}
LastTimeoutOption ==
    CHOOSE i \in TimeoutOptionsGiven : \A j \in TimeoutOptionsGiven : j <= i

\* C11: whatever WithHTTPClient and WithTimeout options NewClient is given,
\* and in whatever order, the timeout in effect on the client it returns is
\* the WithTimeout value when that option was given, and 30 seconds when no
\* option was given.
TimeoutOptionIsInEffect ==
    (nout.op = "NewClient" /\ nout.hasClient) =>
        /\ TimeoutOptionsGiven # {} =>
              TimeoutInEffect = nout.opts[LastTimeoutOption].timeout
        /\ nout.opts = <<>> => TimeoutInEffect = DefaultTimeout

\* C12: NewClient with a base URL that does not parse returns an
\* invalid-base-URL error and no client, having applied no option and sent
\* no request; with a base URL that parses it returns a client and no error.
NewClientFollowsTheParse ==
    nout.op = "NewClient" =>
        IF Parse(nout.baseURL).ok
        THEN nout.hasClient /\ IsNilErr(nout.err)
        ELSE /\ ~nout.hasClient
             /\ nout.err.kind = "invalid base URL"
             /\ nout.applied = 0
             /\ nout.heap.supplied = nout.supplied
             /\ nout.requests = 0

\* C13: a HealthResponse always holds one of the two statuses, healthy or
\* unhealthy: the one BaseServer.GetHealth returns, and the one the client's
\* GetHealth returns without error, whatever body the 200 or 503 response
\* carried.
HealthResultStatusIsOfTheEnum ==
    /\ (bout.op = "GetHealth" /\ bout.hasRes) =>
          bout.res.Status \in {HealthStatusHealthy, HealthStatusUnhealthy}
    /\ (cout.op = "GetHealth" /\ IsNilErr(cout.err)) =>
          /\ cout.hasRes
          /\ cout.res.Status \in {HealthStatusHealthy, HealthStatusUnhealthy}

\* C14: the BaseServer's GetHealth, GetLiveness, GetReadiness and GetStatus
\* return a result and no error under every configuration and every context,
\* an ended one included; GetHealth reports healthy and GetLiveness alive.
\* GetMetrics returns an error only when a metrics function is configured,
\* and then the error that function returned.
OnlyTheMetricsProviderFails ==
    /\ bout.op \in {"GetHealth", "GetLiveness", "GetReadiness", "GetStatus"} =>
          bout.hasRes /\ IsNilErr(bout.err)
    /\ bout.op = "GetHealth" => bout.res.Status = HealthStatusHealthy
    /\ bout.op = "GetLiveness" => bout.res.Alive
    /\ (bout.op = "GetMetrics" /\ ~IsNilErr(bout.err)) =>
          /\ srv.MetricsFunc # "nil"
          /\ bout.fnCalls = 1
          /\ ~IsNilErr(bout.fnErr)
          /\ bout.err = bout.fnErr

\* GetHealth was called with a cancelled context on a fully configured
\* server and returned healthy.
OnlyTheMetricsProviderFailsWitness ==
    /\ bout.op = "GetHealth"
    /\ bout.ctx = "canceled"
    /\ srv.CheckFunc # "nil"
    /\ srv.MetricsFunc # "nil"
    /\ srv.StartTime = ZeroTime
    /\ bout.res.Status = HealthStatusHealthy
    /\ IsNilErr(bout.err)

\* C15: BaseServer.GetMetrics with a metrics function configured calls it
\* once and returns exactly the text and exactly the error it returned;
\* with none configured it returns the built-in placeholder text and no
\* error, the same text at every call.
GetMetricsDelegatesToTheProvider ==
    bout.op = "GetMetrics" =>
        IF srv.MetricsFunc # "nil"
        THEN /\ bout.fnCalls = 1
             /\ bout.text = bout.fnText
             /\ bout.err = bout.fnErr
        ELSE /\ bout.fnCalls = 0
             /\ bout.text = defaultMetrics
             /\ IsNilErr(bout.err)

\* The metrics function returned a text together with an error whose message
\* is empty, and GetMetrics returned that text and that error.
GetMetricsDelegatesWitness ==
    /\ bout.op = "GetMetrics"
    /\ srv.MetricsFunc # "nil"
    /\ bout.fnText = Txt("partial")
    /\ bout.fnErr = OpaqueErr("")
    /\ bout.text = Txt("partial")
    /\ bout.err = OpaqueErr("")

\* C16: for every text GetMetrics returns without error, the empty text
\* included, GET /metrics answers 200 with a body that is exactly that text;
\* and what the BaseServer returns with no metrics function configured is
\* answered with the placeholder text as the body.
MetricsBodyIsTheText ==
    /\ (hout.route = "/metrics" /\ IsNilErr(hout.ret.err)) =>
          /\ hout.w.status = StatusOK
          /\ hout.w.body = <<hout.ret.text>>
    /\ (bout.op = "GetMetrics" /\ srv.MetricsFunc = "nil") =>
          LET served == handleGetMetrics(ServerRet(FALSE, NoRes, bout.text, bout.err))
          IN  /\ served.w.status = StatusOK
              /\ served.w.body = <<defaultMetrics>>

\* GetMetrics returned the empty text and no error, and the request was
\* answered 200 with an empty body.
MetricsBodyWitness ==
    /\ hout.route = "/metrics"
    /\ IsNilErr(hout.ret.err)
    /\ hout.ret.text = EmptyText
    /\ hout.w.status = StatusOK
    /\ hout.w.body = <<EmptyText>>

FivePaths == {"/health", "/health/live", "/health/ready", "/status", "/metrics"}

\* C19: a request on one of the five paths with a method other than GET
\* (POST, PUT, DELETE, PATCH) is answered 405, and no operation of the Server
\* is called for it.
OtherMethodsAreNotAllowed ==
    (hout.path \in FivePaths /\ hout.method # "GET") =>
        /\ hout.w.status = StatusMethodNotAllowed
        /\ Occurrences(hout.log, ServerCalls) = 0
        /\ ~hout.panicked

\* A DELETE on /metrics was answered 405 without a call of the Server.
OtherMethodsWitness ==
    /\ hout.path = "/metrics"
    /\ hout.method = "DELETE"
    /\ hout.w.status = StatusMethodNotAllowed
    /\ Occurrences(hout.log, ServerCalls) = 0

\* C17: GET /status is answered 200 whenever GetStatus returns without
\* error, whatever the StatusResponse holds, dependencies that are not
\* healthy included; it is never answered 503.
StatusIsAnswered200 ==
    hout.route = "/status" =>
        /\ IsNilErr(hout.ret.err) => hout.w.status = StatusOK
        /\ hout.w.status # StatusServiceUnavailable

\* GetStatus returned a result with a dependency that is down, and the
\* request was answered 200.
StatusIsAnswered200Witness ==
    /\ hout.route = "/status"
    /\ IsNilErr(hout.ret.err)
    /\ hout.ret.hasRes
    /\ \E k \in 1 .. Len(hout.ret.res.Dependencies.list) :
         hout.ret.res.Dependencies.list[k].Status = "down"
    /\ hout.w.status = StatusOK

\* The content type the claim gives a response: that of the metrics text
\* for a successful /metrics response, JSON for every other response.
ClaimedContentType ==
    IF hout.path = "/metrics" /\ hout.w.status = StatusOK
    THEN "text/plain; version=0.0.4"
    ELSE "application/json"

\* C18, as stated: every response on one of the five paths has the content
\* type text/plain; version=0.0.4 exactly when it is a successful /metrics
\* response, and application/json when it is any other success response or
\* an error response.
ContentTypeOfEveryResponse ==
    (hout.path \in FivePaths /\ hout.w.wroteHeader) =>
        hout.w.sentCtype = ClaimedContentType

\* C18, amended: every response a handler of HTTPHandler writes has the
\* content type text/plain; version=0.0.4 exactly when it is a successful
\* /metrics response, and application/json when it is any other success
\* response or an error response; the 405 the router answers to a method
\* other than GET has no content type.
ContentTypeOfHandlerResponses ==
    /\ (hout.route \in FivePaths /\ hout.w.wroteHeader) =>
          hout.w.sentCtype = ClaimedContentType
    /\ hout.route = "methodNotAllowed" => hout.w.sentCtype = ""

\* GetStatus returned a result whose start time cannot be encoded: the
\* response went out as application/json before the encoding failed.
ContentTypeWitness ==
    /\ hout.route = "/status"
    /\ IsNilErr(hout.ret.err)
    /\ hout.ret.hasRes
    /\ hout.ret.res.StartTime = BadTime
    /\ hout.w.headerCalls = 2
    /\ hout.w.sentCtype = "application/json"

\* GetStatus returned the static fields of the BaseServer as they are
\* configured, the dependency list in its order.
StaticFieldsUnchanged ==
    /\ bout.res.ServiceName = srv.ServiceName
    /\ bout.res.Version = srv.Version
    /\ bout.res.GitCommit = srv.GitCommit
    /\ bout.res.BuildTime = srv.BuildTime
    /\ bout.res.StartTime = srv.StartTime
    /\ bout.res.Environment = srv.Environment
    /\ bout.res.Hostname = srv.Hostname
    /\ bout.res.Dependencies = srv.Dependencies
\* The start time lies between UptimeStart and UptimeStart + 1 seconds
\* before the clock reading.
StartedUptimeStartAgo ==
    /\ srv.StartTime.wall \notin {ZeroWall, BadWall}
    /\ (now - srv.StartTime.wall) \div TicksPerSecond = UptimeStart
WithinOneSecond(uptime) ==
    uptime - UptimeStart \in {0 - 1, 0, 1}
\* From the start time to the clock reading there are at least, or at
\* most, u seconds: the start time lies nsec nanoseconds, less than a tick,
\* after its tick.
ElapsedAtLeast(u) ==
    \/ now - srv.StartTime.wall > u * TicksPerSecond
    \/ now - srv.StartTime.wall = u * TicksPerSecond /\ srv.StartTime.nsec = 0
ElapsedAtMost(u) == now - srv.StartTime.wall <= u * TicksPerSecond
\* u is now - start_time truncated to whole seconds: the whole seconds
\* that have passed, or those still to pass to a start time not yet reached.
IsTruncatedElapsed(u) ==
    IF ElapsedAtLeast(0)
    THEN ElapsedAtLeast(u) /\ ~ElapsedAtLeast(u + 1)
    ELSE ElapsedAtMost(u) /\ ~ElapsedAtMost(u - 1)

\* C20: BaseServer.GetStatus returns every configured static field
\* unchanged, and uptime_seconds equal to now - start_time truncated to
\* whole seconds; with a start time 3600 seconds in the past the uptime is
\* within one second of 3600.  From the zero start time, year 1, to the clock
\* reading there are more whole seconds than MaxDurationSeconds.
UptimeIsNowMinusStartTime ==
    bout.op = "GetStatus" =>
        /\ StaticFieldsUnchanged
        /\ IF srv.StartTime.wall = ZeroWall
           THEN bout.res.UptimeSeconds > MaxDurationSeconds
           ELSE IsTruncatedElapsed(bout.res.UptimeSeconds)
        /\ StartedUptimeStartAgo => WithinOneSecond(bout.res.UptimeSeconds)

\* What GetStatus does report: the static fields unchanged; the truncated
\* seconds for a start time less than 2^24 seconds back or ahead, and those
\* or one more for a start time further back; the largest Duration for the
\* zero start time; 3600 or 3601 for a start time 3600 seconds in the past.
UptimeIsTruncatedUpTo194Days ==
    bout.op = "GetStatus" =>
        /\ StaticFieldsUnchanged
        /\ IF srv.StartTime.wall = ZeroWall
           THEN bout.res.UptimeSeconds = MaxDurationSeconds
           ELSE \/ IsTruncatedElapsed(bout.res.UptimeSeconds)
                \/ /\ ElapsedAtLeast(2 ^ 24)
                   /\ IsTruncatedElapsed(bout.res.UptimeSeconds - 1)
        /\ StartedUptimeStartAgo => WithinOneSecond(bout.res.UptimeSeconds)

\* A server whose start time lies one nanosecond less than 2^24 + 1
\* seconds back reported 2^24 + 1 seconds, a second that had not passed.
UptimeRoundedUp ==
    /\ bout.op = "GetStatus"
    /\ srv.StartTime.nsec = 1
    /\ now - srv.StartTime.wall = (2 ^ 24 + 1) * TicksPerSecond
    /\ bout.res.UptimeSeconds = 2 ^ 24 + 1

\* A server whose start time lies two nanoseconds less than 2^24 + 1
\* seconds back reported the 2^24 seconds that had passed.
UptimeNotRoundedUp ==
    /\ bout.op = "GetStatus"
    /\ srv.StartTime.nsec = 2
    /\ now - srv.StartTime.wall = (2 ^ 24 + 1) * TicksPerSecond
    /\ bout.res.UptimeSeconds = 2 ^ 24

\* A fully configured server whose start time was set 3600 seconds back,
\* asked for its status one clock tick later, reported an uptime of 3600.
UptimeWitness ==
    /\ bout.op = "GetStatus"
    /\ srv.Hostname # ""
    /\ Len(srv.Dependencies.list) = 2
    /\ bout.res.Dependencies = srv.Dependencies
    /\ now - srv.StartTime.wall = UptimeStart * TicksPerSecond + 1
    /\ bout.res.UptimeSeconds = UptimeStart

\* C21: uptime_seconds in every StatusResponse BaseServer.GetStatus returns
\* is an integer not below zero, whatever StartTime holds, a start time
\* later than the clock reading included.
UptimeIsNeverNegative ==
    bout.op = "GetStatus" => bout.res.UptimeSeconds >= 0

\* The uptime a GetStatus call on the BaseServer as it is now reports at
\* clock reading clock.
UptimeAt(clock) == BaseServerGetStatus(srv, clock).UptimeSeconds

\* C22: no operation of the BaseServer modifies it: a step that is one of
\* GetHealth, GetLiveness, GetReadiness, GetStatus, GetMetrics leaves every
\* field as it was, so GetStatus reports the start time the server holds,
\* and an uptime not below the one a call at any earlier clock reading
\* reported.
BackendIsReadOnly ==
    [][bout'.op # "none" =>
          /\ srv' = srv
          /\ bout'.op = "GetStatus" =>
                /\ bout'.res.StartTime = srv.StartTime
                /\ \A earlier \in 0 .. now : UptimeAt(earlier) <= bout'.res.UptimeSeconds]_vars

\* A server constructed at clock reading 0 was asked for its status after
\* the clock had advanced by MaxTime ticks and reported its start time and
\* the whole seconds that had passed.
BackendIsReadOnlyWitness ==
    /\ bout.op = "GetStatus"
    /\ now = MaxTime
    /\ srv.StartTime = TimeNow(0)
    /\ bout.res.StartTime = TimeNow(0)
    /\ bout.res.UptimeSeconds = MaxTime \div TicksPerSecond

JSONRoutes == {"/health", "/health/live", "/health/ready", "/status"}
\* A handler was given a result without error and wrote its wire form.
Encoded200 ==
    /\ hout.route \in JSONRoutes
    /\ IsNilErr(hout.ret.err)
    /\ hout.ret.hasRes
\* What the client's decoding makes of the body the handler wrote.
WireDecoding ==
    CASE hout.route = "/health"       -> DecodeHealth(hout.w.body[1], "none")
      [] hout.route = "/health/live"  -> DecodeLiveness(hout.w.body[1], "none")
      [] hout.route = "/health/ready" -> DecodeReadiness(hout.w.body[1], "none")
      [] OTHER                        -> DecodeStatus(hout.w.body[1], "none")
\* Equality field by field; two times are equal when they are the same
\* instant, with or without a monotonic reading.
SameInstant(a, b) == a.wall = b.wall /\ a.nsec = b.nsec
SameTimePtr(a, b) == a.isNil = b.isNil /\ (a.isNil \/ SameInstant(a.t, b.t))
FieldEqual(route, a, b) ==
    CASE route = "/health" ->
            a.Status = b.Status /\ SameInstant(a.Timestamp, b.Timestamp)
      [] route = "/health/live" ->
            a.Alive = b.Alive /\ SameInstant(a.Timestamp, b.Timestamp)
      [] route = "/health/ready" ->
            /\ a.Ready = b.Ready
            /\ SameInstant(a.Timestamp, b.Timestamp)
            /\ a.Checks = b.Checks
      [] OTHER ->
            /\ a.ServiceName = b.ServiceName
            /\ a.Version = b.Version
            /\ a.GitCommit = b.GitCommit
            /\ SameTimePtr(a.BuildTime, b.BuildTime)
            /\ SameInstant(a.StartTime, b.StartTime)
            /\ a.UptimeSeconds = b.UptimeSeconds
            /\ a.Environment = b.Environment
            /\ a.Hostname = b.Hostname
            /\ a.Dependencies.list = b.Dependencies.list
\* The strings and the times a result holds.
StringsOf(route, r) ==
    CASE route = "/health"       -> {r.Status}
      [] route = "/health/live"  -> {}
      [] route = "/health/ready" ->
            DOMAIN r.Checks.m \cup {r.Checks.m[k] : k \in DOMAIN r.Checks.m}
      [] OTHER ->
            {r.ServiceName, r.Version, r.GitCommit, r.Environment, r.Hostname}
            \cup UNION {{r.Dependencies.list[i].Name, r.Dependencies.list[i].Status,
                         r.Dependencies.list[i].Version} :
                            i \in 1 .. Len(r.Dependencies.list)}
TimesOf(route, r) ==
    IF route = "/status"
    THEN {r.StartTime} \cup (IF r.BuildTime.isNil THEN {} ELSE {r.BuildTime.t})
    ELSE {r.Timestamp}
\* JSON can carry the result: its strings are valid UTF-8 and its times
\* have a year RFC 3339 can write.
Representable(route, r) ==
    /\ BadUTF8 \notin StringsOf(route, r)
    /\ \A t \in TimesOf(route, r) : TimeEncodes(t)

\* C23: encoding any HealthResponse, LivenessResponse, ReadinessResponse or
\* StatusResponse to JSON and decoding it back gives a result equal to the
\* original field by field (the dependencies the same in the same order),
\* with and without the optional fields set.
RoundTripOfAnyResult ==
    Encoded200 =>
        /\ WireDecoding.cause = "none"
        /\ FieldEqual(hout.route, WireDecoding.res, hout.ret.res)

\* What the round trip does give: a result equal field by field for every
\* result whose strings are valid UTF-8 and whose times have a year from 0
\* to 9999, times compared as instants; the dependencies come back as a nil
\* slice when there were none, whether the slice was nil or empty, and as a
\* non-nil one otherwise.
RoundTripOfRepresentableResult ==
    (Encoded200 /\ Representable(hout.route, hout.ret.res)) =>
        /\ WireDecoding.cause = "none"
        /\ FieldEqual(hout.route, WireDecoding.res, hout.ret.res)
        /\ hout.route = "/status" =>
              WireDecoding.res.Dependencies.isNil
                  = (Len(hout.ret.res.Dependencies.list) = 0)

\* A StatusResponse with every optional field set, a dependency without
\* version among its dependencies, went through the wire form unchanged.
RoundTripWitness ==
    /\ hout.route = "/status"
    /\ Encoded200
    /\ hout.ret.res.GitCommit # ""
    /\ ~hout.ret.res.BuildTime.isNil
    /\ Len(hout.ret.res.Dependencies.list) = 2
    /\ hout.ret.res.Dependencies.list[1].Version = "14.5"
    /\ WireDecoding.cause = "none"
    /\ WireDecoding.res.Dependencies = hout.ret.res.Dependencies
    /\ FieldEqual("/status", WireDecoding.res, hout.ret.res)

\* A StatusResponse whose Dependencies is an empty slice that is not nil
\* went through the wire form and came back with a nil one.
EmptyDependenciesCameBackNil ==
    /\ hout.route = "/status"
    /\ Encoded200
    /\ hout.ret.res.Dependencies = Deps(FALSE, <<>>)
    /\ WireDecoding.cause = "none"
    /\ WireDecoding.res.Dependencies = NilDeps

\* A StatusResponse whose start time has nanoseconds came back with them.
NanosecondsCameBack ==
    /\ hout.route = "/status"
    /\ Encoded200
    /\ hout.ret.res.StartTime.nsec = 1
    /\ WireDecoding.cause = "none"
    /\ WireDecoding.res.StartTime.nsec = 1

\* The handler of /status wrote the JSON object of a result.
StatusObjectWritten ==
    /\ hout.route = "/status"
    /\ Encoded200
    /\ hout.w.body[1].kind = "json"
    /\ hout.w.body[1].root = "object"
RequiredStatusFields ==
    {"service_name", "version", "start_time", "uptime_seconds", "environment"}

\* C24: in the body of /status an optional field (git_commit, build_time,
\* hostname, dependencies, a dependency's version) is absent exactly when it
\* is unset, and no field is written as null; the required fields
\* (service_name, version, start_time, uptime_seconds, environment, a
\* dependency's name and status) are present whatever their value.
OptionalFieldsAreOmitted ==
    StatusObjectWritten =>
        LET f == hout.w.body[1].fields
            r == hout.ret.res
        IN  /\ ("git_commit" \in DOMAIN f) = (r.GitCommit # "")
            /\ ("build_time" \in DOMAIN f) = ~r.BuildTime.isNil
            /\ ("hostname" \in DOMAIN f) = (r.Hostname # "")
            /\ ("dependencies" \in DOMAIN f) = (Len(r.Dependencies.list) > 0)
            /\ RequiredStatusFields \subseteq DOMAIN f
            /\ \A k \in DOMAIN f : f[k].t # "null"
            /\ "dependencies" \in DOMAIN f =>
                  \A i \in 1 .. Len(r.Dependencies.list) :
                     LET d == f["dependencies"].a[i]
                     IN  /\ {"name", "status"} \subseteq DOMAIN d
                         /\ ("version" \in DOMAIN d) = (r.Dependencies.list[i].Version # "")
                         /\ \A k \in DOMAIN d : d[k].t # "null"

\* A StatusResponse whose required fields are all empty or zero, with a
\* hostname and one dependency without name, status and version, was
\* written with its required fields and without the unset optional ones.
OptionalFieldsWitness ==
    /\ StatusObjectWritten
    /\ hout.ret.res.ServiceName = ""
    /\ hout.ret.res.StartTime = ZeroTime
    /\ hout.ret.res.UptimeSeconds = 0
    /\ DOMAIN hout.w.body[1].fields
         = RequiredStatusFields \cup {"hostname", "dependencies"}
    /\ DOMAIN hout.w.body[1].fields["dependencies"].a[1] = {"name", "status"}

\* The path of each client operation.
PathOf(op) ==
    CASE op = "GetHealth" -> "/health"
      [] op = "GetLiveness" -> "/health/live"
      [] op = "GetReadiness" -> "/health/ready"
      [] op = "GetStatus" -> "/status"
      [] op = "GetMetrics" -> "/metrics"

\* A client call handed a request to the HTTP client.
RequestSent == cout.op # "none" /\ Occurrences(cout.log, {"Do"}) > 0

\* C25: every request the Client sends is a GET to the base URL followed by
\* the path of the operation, with Accept: text/plain for GetMetrics and
\* Accept: application/json for the other four operations; a call sends at
\* most one request.
RequestsAreGETsOnTheOperationsPath ==
    /\ cout.op # "none" => Occurrences(cout.log, {"Do"}) <= 1
    /\ RequestSent =>
        /\ cout.req.method = "GET"
        /\ cout.req.url = TheClient.baseURL \o PathOf(cout.op)
        /\ cout.req.accept = IF cout.op = "GetMetrics" THEN "text/plain"
                             ELSE "application/json"

\* GetMetrics sent its request and received the metrics text of a 200.
RequestsWitness ==
    /\ RequestSent
    /\ cout.op = "GetMetrics"
    /\ cout.req = HTTPRequest("GET", "http://localhost:8080/api/v1/metrics", "text/plain")
    /\ IsNilErr(cout.err)

\* A goroutine's request or call is over.
Completed(g) == inflight[g].pc \in {"responded", "returned"}

\* The outcome of a goroutine's request or call is the outcome of the same
\* request or call made alone.
OutcomeAsAlone(g) ==
    /\ inflight[g].pc = "responded" =>
          inflight[g].out = ServeHTTP(inflight[g].op, inflight[g].ret)
    /\ inflight[g].pc = "returned" =>
          inflight[g].cl = ClientCall(inflight[g].op, inflight[g].ctx, inflight[g].peer)

\* The request was answered or the call returned: a response was written
\* and nothing panicked, or the call returned a result or an error with a
\* message.
CompletedWell(g) ==
    /\ inflight[g].pc = "responded" =>
          /\ ~inflight[g].out.panicked
          /\ inflight[g].out.w.headerCalls >= 1
    /\ inflight[g].pc = "returned" =>
          \/ IsNilErr(inflight[g].cl.err)
          \/ /\ ~inflight[g].cl.hasRes
             /\ inflight[g].cl.err.kind \in
                   {"creating request", "executing request", "unexpected status code",
                    "decoding response", "reading response body"}

\* C26: under any interleaving of concurrent requests to the five routes and
\* concurrent calls of the five client operations, every request and call
\* completes with a success or a well-formed error, never a crash, and with
\* the outcome it has when made alone.
ConcurrentCallsCompleteAsAlone ==
    \A g \in Goroutines : Completed(g) => CompletedWell(g) /\ OutcomeAsAlone(g)

\* Every completed request and call has the outcome it has alone.
EveryOutcomeAsAlone == \A g \in Goroutines : Completed(g) => OutcomeAsAlone(g)

\* Every completed call of the client completed well.
EveryCallCompletedWell ==
    \A g \in Goroutines : inflight[g].pc = "returned" => CompletedWell(g)

\* The Server operation bound to a route.
ServerCallOf(route) ==
    CASE route = "/health" -> "server.GetHealth"
      [] route = "/health/live" -> "server.GetLiveness"
      [] route = "/health/ready" -> "server.GetReadiness"
      [] route = "/status" -> "server.GetStatus"
      [] route = "/metrics" -> "server.GetMetrics"

\* A GET on one of the five routes was handled.
HandledGET == hout.route \in FivePaths /\ hout.method = "GET"

\* The response is one status code and the one body of the error.
OneErrorResponse ==
    /\ hout.w.headerCalls = 1 /\ hout.w.status = StatusInternalServerError
    /\ Len(hout.w.body) = 1
    /\ hout.w.body[1].kind = "json" /\ hout.w.body[1].root = "object"
    /\ DOMAIN hout.w.body[1].fields = {"error"}

\* The response is one status code and the one body of the success: the
\* metrics text, or the whole JSON document of the result.
OneSuccessResponse ==
    /\ hout.w.headerCalls = 1
    /\ hout.w.status \in {StatusOK, StatusServiceUnavailable}
    /\ Len(hout.w.body) = 1
    /\ IF hout.route = "/metrics" THEN hout.w.body[1] = hout.ret.text
       ELSE /\ hout.w.body[1].kind = "json"
            /\ hout.w.body[1].root \in {"object", "null"}
            /\ "error" \notin DOMAIN hout.w.body[1].fields

\* C27: for every GET on one of the five routes the handler calls the one
\* Server operation bound to the route, exactly once and before anything
\* else, and then writes exactly one response: one status code and one
\* body, the success body or the error body.
OneCallThenOneResponse ==
    HandledGET =>
        /\ hout.log[1] = ServerCallOf(hout.route)
        /\ Occurrences(hout.log, ServerCalls) = 1
        /\ ~hout.panicked
        /\ IF IsNilErr(hout.ret.err) THEN OneSuccessResponse ELSE OneErrorResponse

\* The same, for the requests whose Server returned an error, or a result
\* that encoding/json can encode.
OneCallThenOneResponseOfEncodableReturns ==
    (/\ HandledGET
     /\ IsNilErr(hout.ret.err) => \/ hout.route \in {"/status", "/metrics"} /\ ~hout.ret.hasRes
                                  \/ hout.ret.hasRes /\ \A t \in TimesOf(hout.route, hout.ret.res) : TimeEncodes(t))
    => OneCallThenOneResponse

ProbeRoutes == {"/health", "/health/live", "/health/ready"}

\* C29: whatever the Server returns on /health, /health/live and
\* /health/ready (a result, an error, or a nil result with a nil error), the
\* handler completes the request with a response of status 200, 503 or 500
\* and does not crash.
ProbeHandlersSurviveEveryReturn ==
    hout.route \in ProbeRoutes =>
        /\ ~hout.panicked
        /\ hout.w.wroteHeader
        /\ hout.w.status \in {StatusOK, StatusServiceUnavailable, StatusInternalServerError}

\* C30: NewClient, with any options, leaves the http.Client the caller
\* supplied through WithHTTPClient as it was: its Timeout after the call is
\* its Timeout before the call, so a second client built from the same
\* http.Client cannot change the timeout of the first.
NewClientLeavesTheSuppliedClientAlone ==
    nout.op = "NewClient" => nout.heap.supplied = nout.supplied

\* What a client of the server sees of the handled request: the response
\* written, or a connection closed without a response when the handler
\* panicked (net/http recovers the panic and drops the connection).
PeerOfTheHandler ==
    IF hout.panicked \/ Len(hout.w.body) = 0
    THEN Peer("fail", "never", "none", 0, EmptyText)
    ELSE Peer("ok", "never", "none", hout.w.status, hout.w.body[1])

\* The outcome of the client operation of the route, called with a live
\* context and served by the handled request.
ServedCall ==
    CASE hout.route = "/health" -> ClientGetHealth("live", PeerOfTheHandler)
      [] hout.route = "/health/live" -> ClientGetLiveness("live", PeerOfTheHandler)
      [] hout.route = "/health/ready" -> ClientGetReadiness("live", PeerOfTheHandler)
      [] hout.route = "/status" -> ClientGetStatus("live", PeerOfTheHandler)
      [] hout.route = "/metrics" -> ClientGetMetrics("live", PeerOfTheHandler)

\* The client has an error exactly when the Server had one, and otherwise
\* the Server's result, field by field, or its metrics text.
Mirrored ==
    /\ ~IsNilErr(ServedCall.err) = ~IsNilErr(hout.ret.err)
    /\ IsNilErr(ServedCall.err) =>
          IF hout.route = "/metrics" THEN ServedCall.text = hout.ret.text
          ELSE /\ ServedCall.hasRes = hout.ret.hasRes
               /\ hout.ret.hasRes => FieldEqual(hout.route, ServedCall.res, hout.ret.res)

\* C28: a client operation served by the handler over any Server returns an
\* error exactly when the Server's operation returned an error, and
\* otherwise a result equal field by field to the Server's result (the same
\* metrics text), for results answered 200 and for probe results answered
\* 503.
ClientMirrorsTheServer == HandledGET => Mirrored

\* The same, for the requests whose Server returned an error, or a result
\* that JSON can carry, or a metrics text.
ClientMirrorsRepresentableResults ==
    (/\ HandledGET
     /\ IsNilErr(hout.ret.err) /\ hout.route # "/metrics" =>
            hout.ret.hasRes /\ Representable(hout.route, hout.ret.res))
    => Mirrored

====
